---- MODULE Spec2Model ----
(***************************************************************************)
(* Model of the watch-party front end: the useRoom hook (room state, chat, *)
(* playback state over one socket), the VideoPlayer sync effect and the    *)
(* VoiceCall WebRTC signalling component.                                   *)
(*                                                                         *)
(* A socket handler runs to completion on the single JS thread and React   *)
(* 18 batches the state updates it makes, so one handler is one action.    *)
(* Values captured by React closures (the isHost prop of VideoPlayer, the  *)
(* isInCall state seen by the VoiceCall socket handlers) are separate      *)
(* variables that a render step refreshes.                                 *)
(***************************************************************************)
EXTENDS Integers, Sequences, FiniteSets, TLC

(* ------------------------------ bounds --------------------------------- *)
NumIds == 3
MaxJoins == 2
MaxTicks == 2
MaxMsgs == 3
MaxCalls == 2
NumMsgIds == 2
MaxLeaves == 2
MaxBuffer == 2
MaxNow == 20000             \* the clock of the API client stops here (ms)
MaxInFlight == 1            \* polls awaiting their response at one time
MaxPrior == 1               \* polls of cleared intervals are counted up to here

(* ------------------------------ program constants ---------------------- *)
SYNC_THRESHOLD == 2        \* seconds
MsPerSec == 1000           \* Date.now() is in milliseconds, positions in seconds
SyncGuardMs == 100         \* setTimeout(() => isSyncingRef.current = false, 100)
ReconnectionAttempts == 5  \* io(WS_URL, { reconnectionAttempts: 5 })
TickMs == 50               \* granularity of the clock of the model
DefaultRetryAfterMs == 60000  \* error.retryAfterMs || 60000
MinWaitSeconds == 5        \* Math.max(5, error.retryAfterSeconds)
MaxRetries == 3            \* maxRetries of createCloudBrowserSessionWithRetry
maxPolls == 30             \* const maxPolls = 30 of the viewer's polling effect

Ids == 1..NumIds
Roles == {"host", "guest"}

(* ------------------------------ state ---------------------------------- *)
VARIABLES
  sock,               \* socket.io client: "connecting", "connected", "reconnecting",
                      \* "failed" (reconnection given up), "closed" (socket.disconnect())
  hostToken,          \* localStorage hostToken_<roomId> as read when the effect mounted
  joinPayload,        \* payload of the room:join emitted last
  attempts,           \* reconnection attempts that failed since the transport was lost
  socketRef,          \* socketRef.current: "set" or "null"
  leaveCalls,         \* history: number of leaveRoom() calls so far
  leaveEmits,         \* number of socket.emit('room:leave') so far
  sendBuffer,         \* packets emitted while not connected, queued by the socket
  joinPending,        \* a room:join was emitted and its acknowledgement is awaited
  joinEmits,          \* number of room:join emitted so far
  isConnected, isJoined, error, roomInfo,
  participants,       \* Participant[] (id, role), in list order
  currentParticipant, \* Participant | null
  lastEvent,          \* the socket event handled last: [type, arg, rep]
  replayIds,          \* history: the id set implied by replaying joined/left from the snapshot
  onlyHostChanged,    \* history: only room:host-changed handled since the last room:joined
  hostRemoved,        \* history: participant-left removed the host, no host-changed/joined since
  emitsAtRemoval,     \* history: joinEmits when the host was removed
  graceElapsed,       \* history: the grace window after the host's removal has passed
  snapList,           \* history: the room:joined payload of a re-join, while in force
  messages,           \* ChatMessage[] (id, timestamp), in list order
  lastChat,           \* history: the chat event handled last; flip changes at every one
  lastSend,           \* history: the sendMessage call made last and whether it emitted
  snapLog,            \* history: the chat:history payload of a re-join, while in force
  playbackState,      \* PlaybackState; positions and times in milliseconds
  syncDue,            \* playbackState or mediaUrl changed since the sync effect last ran
  snapState,          \* history: the playback:sync payload of a re-join, while in force
  now,                \* Date.now()
  video,              \* the <video> element: currentTime, paused, playbackRate (or none)
  isSyncing,          \* isSyncingRef.current
  syncTimers,         \* due times of the pending 100 ms timers of the sync effect
  propIsHost,         \* isHost as of the last render (captured by the VideoPlayer closures)
  mediaEvents,        \* queued play / pause / seeked events of the element
  lastDrift,          \* history: |local - expected| seen by the sync effect that ran last
  playRejected,       \* history: the browser rejected video.play() of that sync effect
  lastEmit,           \* the command emitted last on the socket, with the local role then
  emitBySync,         \* history: that command answered an element event of a sync write
  isConnecting,       \* VoiceCall state of each client: getUserMedia is pending
  isInCall,           \* VoiceCall state of each client
  handlerInCall,      \* isInCall as captured by the subscribed socket handlers
  localStream,        \* localStreamRef.current: "null" or "live"
  voiceParticipants,  \* the roster each client shows (ids, without its own)
  peerConnections,    \* peerConnectionsRef.current of each client, by remote id
  orphanPcs,          \* connections replaced in the table and never closed: remote id,
                      \* and whether a remote description had been applied
  isMuted,            \* VoiceCall state of each client
  tracksEnabled,      \* track.enabled of the audio tracks of the stream acquired last
  voiceLeaves,        \* number of socket.emit('voice:leave') of each client
  lastVoice,          \* history: the voice:mute emitted or the connection failure handled last
  voiceUnmounted,     \* the clients whose VoiceCall component has unmounted
  globalRateLimitUntil, \* lib/api.ts: module-level time until which calls are refused
  chain,              \* the createCloudBrowserSessionWithRetry call of each caller
  hyperbeamAvailable, \* RoomPage state
  hyperbeamEmbedUrl,  \* RoomPage state: the embed URL or null
  initializingRef,    \* initializingRef.current
  inits,              \* the initCloudBrowser() calls in flight: phase, isMounted, actualIsHost
  initDeps,           \* dependencies the initialization effect last ran with
  poller,             \* the interval of the polling effect and its pollCount
  pollDeps,           \* dependencies the polling effect last ran with
  pollsInFlight,      \* polls awaiting their response: of the current interval, of older ones
  priorPolls,         \* history: polls made by the intervals cleared so far (up to MaxPrior)
  pageUnmounted,      \* RoomPage has unmounted
  voiceNet,           \* voice events on their way to a client
  voiceRoster,        \* the room's voice members in join order
  calls               \* number of joinCall so far

chanVars == <<hostToken, joinPayload, attempts, socketRef, leaveCalls, leaveEmits, sendBuffer>>
connVars == <<sock, joinPending, joinEmits, isConnected, isJoined, error, roomInfo, chanVars>>
listVars == <<participants, currentParticipant>>
histVars == <<replayIds, onlyHostChanged, hostRemoved, emitsAtRemoval, graceElapsed,
              snapList>>
roomVars == <<connVars, listVars, lastEvent, histVars>>

chatVars == <<messages, lastChat, lastSend, snapLog>>
playVars == <<playbackState, syncDue, snapState>>
playerVars == <<video, isSyncing, syncTimers, propIsHost, mediaEvents, lastDrift, playRejected,
                emitBySync>>

micVars == <<isMuted, tracksEnabled, voiceLeaves, lastVoice>>
voiceVars == <<isConnecting, isInCall, handlerInCall, localStream, voiceParticipants,
               peerConnections, orphanPcs, voiceNet, voiceRoster, calls, micVars>>

\* what lives outside useRoom, VideoPlayer and the call itself
apiVars == <<globalRateLimitUntil, chain>>
pageVars == <<hyperbeamAvailable, hyperbeamEmbedUrl, initializingRef, inits, initDeps,
              poller, pollDeps, pollsInFlight, priorPolls, pageUnmounted>>
appVars == <<voiceUnmounted, apiVars, pageVars>>

vars == <<roomVars, chatVars, playVars, playerVars, now, lastEmit, voiceVars, appVars>>
otherThanRoom == <<chatVars, playVars, playerVars, now, lastEmit, voiceVars, appVars>>
otherThanVoice == <<roomVars, chatVars, playVars, playerVars, now, lastEmit, appVars>>

(* ------------------------------ values --------------------------------- *)
NoParticipant == [id |-> 0, role |-> "none"]
NoError == "null"
NoRoom == [mediaUrl |-> "null", mediaType |-> "null"]
NoVideo == [currentTime |-> -1, paused |-> TRUE, playbackRate |-> 0]
NoEmit == [type |-> "none", role |-> "none"]
MediaUrls == {"", "a.mp4"}
Rooms == [mediaUrl : MediaUrls, mediaType : {"video"}]
ErrRoomClosed == "Room has been closed"
ErrJoinFailed == "Failed to join room"
ErrConnection == "Connection error"
NoToken == "null"
Tokens == {NoToken, "token"}
NoJoin == [roomId |-> "none", userName |-> "none", hostToken |-> "none"]
\* the { roomId, userName, hostToken } object of room:join
JoinRequest(token) == [roomId |-> "roomId", userName |-> "userName", hostToken |-> token]
NoEvent == [type |-> "none", arg |-> 0, rep |-> FALSE]

Participant(i, r) == [id |-> i, role |-> r]

\* two clients of one room's voice call; client 1 is the local participant of useRoom
VoiceClients == {1, 2}
\* the participant ids a client may hold a connection to: the two clients and
\* one more participant of the room
VoicePeers == VoiceClients \cup {3}
NoVoiceEvent == [op |-> "none", c |-> 0, peer |-> 0, value |-> FALSE, flip |-> FALSE]
NoPc == [role |-> "none", remote |-> FALSE, ice |-> FALSE]

InitialPlayback == [isPlaying |-> FALSE, currentTime |-> 0, playbackRate |-> 1, lastUpdated |-> 0]
NoSnapList == [set |-> FALSE, participant |-> NoParticipant, participants |-> <<>>,
               dropped |-> FALSE]
NoSnapLog == [set |-> FALSE, log |-> <<>>, dropped |-> FALSE]
NoSnapState == [set |-> FALSE, state |-> InitialPlayback, dropped |-> FALSE]

\* the event handled now; rep: it repeats the event handled just before it
Ev(type, arg) ==
  [type |-> type, arg |-> arg, rep |-> (lastEvent.type = type /\ lastEvent.arg = arg)]

RECURSIVE SeqFilter(_, _)
SeqFilter(s, i) ==
  IF s = <<>> THEN <<>>
  ELSE IF Head(s).id # i THEN <<Head(s)>> \o SeqFilter(Tail(s), i)
       ELSE SeqFilter(Tail(s), i)

IdsOf(ps) == {ps[k].id : k \in 1..Len(ps)}
NoDupIds(ps) == \A j, k \in 1..Len(ps) : ps[j].id = ps[k].id => j = k
HostCount(ps) == Cardinality({k \in 1..Len(ps) : ps[k].role = "host"})
HasHost(ps, i) == \E k \in 1..Len(ps) : ps[k].id = i /\ ps[k].role = "host"

(* Duplicate-free participant lists with exactly one host: what the server's *)
(* room:joined carries. Lists are in ascending id order: the order of a       *)
(* snapshot plays no part in any handler.                                     *)
RECURSIVE ListsOver(_)
ListsOver(S) ==
  IF S = {} THEN {<<>>}
  ELSE LET i == CHOOSE x \in S : \A y \in S : x <= y
           rest == ListsOver(S \ {i})
       IN rest \cup {<<Participant(i, r)>> \o t : t \in rest, r \in Roles}

Snapshots == {ps \in ListsOver(Ids) : Len(ps) >= 1 /\ HostCount(ps) = 1}

(* ------------------- useRoom: state updaters --------------------------- *)
OnParticipantJoinedNoCheck(prev, p) == Append(prev, p)

OnParticipantJoined(prev, p) ==
  IF \E k \in 1..Len(prev) : prev[k].id = p.id THEN prev ELSE Append(prev, p)

OnParticipantLeftPromote(prev, participantId) ==
  LET rest == SeqFilter(prev, participantId)
  IN IF HasHost(prev, participantId) /\ rest # <<>>
       THEN [rest EXCEPT ![1].role = "host"]
       ELSE rest

OnParticipantLeft(prev, participantId) == SeqFilter(prev, participantId)

OnHostChangedListNoDemote(prev, newHostId) ==
  [k \in 1..Len(prev) |->
     [prev[k] EXCEPT !.role = IF prev[k].id = newHostId THEN "host" ELSE prev[k].role]]

OnHostChangedList(prev, newHostId) ==
  [k \in 1..Len(prev) |->
     [prev[k] EXCEPT !.role = IF prev[k].id = newHostId THEN "host" ELSE "guest"]]

OnHostChangedSelfStale(prev, newHostId) == prev

OnHostChangedSelf(prev, newHostId) ==
  IF prev = NoParticipant THEN prev
  ELSE LET newRole == IF prev.id = newHostId THEN "host" ELSE "guest"
       IN IF prev.role # newRole THEN [prev EXCEPT !.role = newRole] ELSE prev

isHost == currentParticipant.role = "host"

\* room:join was emitted again: the socket reconnected after a transport gap
Rejoined == joinEmits >= 2

(* ------------------- socket lifecycle ---------------------------------- *)
(* ------------------------------ lib/api.ts ------------------------------ *)
\* The two callers of createCloudBrowserSessionWithRetry in RoomPage: the
\* initialization effect and the manual start handler.
Callers == {"auto", "manual"}

NoRetryAfter == -1         \* the 429 body carries no retryAfterMs
NoReport == -1             \* onRateLimitCountdown has not been called
NoRateLimit == -1          \* lastError is undefined

\* retryAfterMs values a 429 body may carry
RetryAfters == {NoRetryAfter, 0, 1500}

\* What a POST /hyperbeam/session may come back with: an ok response with a JSON
\* body, an ok response whose body does not parse, a 429 whose body has
\* isRateLimited, and any other failure (another status, a 429 without
\* isRateLimited, a rejected fetch).
Responses ==
  [kind : {"ok", "okBadBody", "error"}, ms : {NoRetryAfter}]
    \cup [kind : {"rate"}, ms : RetryAfters]
NoResponse == [kind |-> "none", ms |-> NoRetryAfter]

Max(a, b) == IF a > b THEN a ELSE b

\* the longest time the server takes to answer a request of the model
MaxLatency == MsPerSec

\* Math.ceil(a / b) for a >= 0, b > 0
CeilDiv(a, b) == (a + b - 1) \div b

IdleChain ==
  [phase |-> "idle", attempt |-> 0, remaining |-> 0, wakeAt |-> 0,
   lastError |-> NoRateLimit, report |-> NoReport, calls |-> 0,
   thrown |-> "none", resp |-> NoResponse]

ChainOver(ch) == ch.phase \in {"idle", "returned", "threw"}

\* isGloballyRateLimited()
isGloballyRateLimited == now < globalRateLimitUntil

\* error.retryAfterMs || 60000
EffectiveRetryAfter(ms) ==
  IF ms = NoRetryAfter \/ ms = 0 THEN DefaultRetryAfterMs ELSE ms

\* The catch branch of the retry loop for a RateLimitError(retryAfterMs): it
\* keeps the error, reports the first countdown value and sleeps one second.
Caught(ch, retryAfterMs) ==
  LET retryAfterSeconds == CeilDiv(retryAfterMs, MsPerSec)
      waitSeconds == Max(MinWaitSeconds, retryAfterSeconds)
  IN [ch EXCEPT !.phase = "count", !.lastError = retryAfterSeconds,
                !.remaining = waitSeconds, !.report = waitSeconds,
                !.wakeAt = now + MsPerSec]

\* One pass of the loop body up to its first await: createCloudBrowserSession
\* throws before fetching while the global limit is active, otherwise it
\* issues the POST.
AttemptUnchecked(ch) ==
  [ch EXCEPT !.calls = @ + 1, !.phase = "fetch", !.resp = NoResponse,
             !.wakeAt = now + MaxLatency]

Attempt(ch) ==
  IF isGloballyRateLimited
    THEN Caught([ch EXCEPT !.calls = @ + 1, !.resp = NoResponse],
                globalRateLimitUntil - now)
    ELSE [ch EXCEPT !.calls = @ + 1, !.phase = "fetch", !.resp = NoResponse,
                    !.wakeAt = now + MaxLatency]

\* createCloudBrowserSessionWithRetry(roomId, isHost, startUrl, cb, 3) is called.
StartChain(k) ==
  /\ chain[k].phase = "idle"
  /\ chain' = [chain EXCEPT ![k] = Attempt(IdleChain)]
  /\ UNCHANGED <<globalRateLimitUntil, now>>

\* The POST of caller k settles with response r.
Respond(k, r) ==
  /\ chain[k].phase = "fetch"
  /\ LET ch == [chain[k] EXCEPT !.resp = r] IN
       CASE r.kind = "ok" ->
              /\ globalRateLimitUntil' = 0
              /\ chain' = [chain EXCEPT ![k] = [ch EXCEPT !.phase = "returned"]]
         [] r.kind = "okBadBody" ->
              /\ globalRateLimitUntil' = 0
              /\ chain' = [chain EXCEPT ![k] =
                             [ch EXCEPT !.phase = "threw", !.thrown = "error"]]
         [] r.kind = "rate" ->
              /\ globalRateLimitUntil' = now + EffectiveRetryAfter(r.ms)
              /\ chain' = [chain EXCEPT ![k] = Caught(ch, EffectiveRetryAfter(r.ms))]
         [] r.kind = "error" ->
              /\ globalRateLimitUntil' = globalRateLimitUntil
              /\ chain' = [chain EXCEPT ![k] =
                             [ch EXCEPT !.phase = "threw", !.thrown = "error"]]
  /\ UNCHANGED now

\* A sleep that is over resumes its caller before the clock is read again.
TimerDue(ch) == ch.phase \in {"count", "buffer"} /\ now >= ch.wakeAt

\* The one-second sleep of the countdown loop is over: remaining--, then either
\* the next value is reported, or 0 is reported and the extra second starts.
CountTick(k) ==
  /\ chain[k].phase = "count"
  /\ TimerDue(chain[k])
  /\ LET left == chain[k].remaining - 1 IN
       chain' = [chain EXCEPT ![k] =
                   [@ EXCEPT !.remaining = left, !.report = left,
                             !.wakeAt = now + MsPerSec,
                             !.phase = IF left > 0 THEN "count" ELSE "buffer"]]
  /\ UNCHANGED <<globalRateLimitUntil, now>>

\* The extra second is over: attempt++, and the loop either runs its body
\* again or ends and lastError is thrown.
BufferDoneForever(k) ==
  /\ chain[k].phase = "buffer"
  /\ TimerDue(chain[k])
  /\ chain' = [chain EXCEPT ![k] = Attempt(@)]
  /\ UNCHANGED <<globalRateLimitUntil, now>>

BufferDone(k) ==
  /\ chain[k].phase = "buffer"
  /\ TimerDue(chain[k])
  /\ chain' = [chain EXCEPT ![k] =
                 IF @.attempt + 1 < MaxRetries
                   THEN Attempt([@ EXCEPT !.attempt = @ + 1])
                   ELSE [@ EXCEPT !.attempt = @ + 1, !.phase = "threw",
                                  !.thrown = "rate"]]
  /\ UNCHANGED <<globalRateLimitUntil, now>>

\* The server answers a request within MaxLatency.
Overdue(ch) == ch.phase = "fetch" /\ now >= ch.wakeAt

\* One second passes.
Elapse ==
  /\ now < MaxNow
  /\ \A k \in Callers : ~TimerDue(chain[k]) /\ ~Overdue(chain[k])
  /\ now' = now + MsPerSec
  /\ UNCHANGED apiVars

(* ------------------------------ RoomPage: cloud browser ------------------ *)
NoUrl == "null"
EmbedUrl == "embed"
NoDeps == <<>>
NoPoller == [active |-> FALSE, pollCount |-> 0]
NoPolls == [cur |-> 0, old |-> 0]

Min(a, b) == IF a < b THEN a ELSE b

\* getCloudBrowserSession calls made by the interval: every tick up to maxPolls
CallsOf(p) == Min(p.pollCount, maxPolls)

\* [isJoined, roomId, currentParticipant, hyperbeamEmbedUrl]. Dependencies are
\* compared by value here and by identity in React, so the effects of the model
\* re-run only when a value changed.
InitDepsNow == <<isJoined, currentParticipant, hyperbeamEmbedUrl>>

\* [hyperbeamEmbedUrl, roomId, isJoined, currentParticipant, hyperbeamAvailable]
PollDepsNow == <<hyperbeamEmbedUrl, isJoined, currentParticipant, hyperbeamAvailable>>

\* state of the hooks and components that the page's cloud browser code leaves alone
hookVars == <<roomVars, chatVars, playVars, playerVars, lastEmit, voiceVars, voiceUnmounted>>

\* cleanup of the initialization effect: isMounted = false
Unmounted(list) == [j \in 1..Len(list) |-> [list[j] EXCEPT !.isMounted = FALSE]]

RemoveAt(list, i) == [j \in 1..(Len(list) - 1) |-> IF j < i THEN list[j] ELSE list[j + 1]]

\* The initialization effect runs: its dependencies changed since it last ran.
\* The previous run's cleanup clears its isMounted; the body starts
\* initCloudBrowser() unless one is marked in progress or the URL is known.
RunInitEffect ==
  /\ ~pageUnmounted
  /\ initDeps # InitDepsNow
  /\ initDeps' = InitDepsNow
  /\ IF /\ isJoined /\ currentParticipant # NoParticipant
        /\ ~initializingRef
        /\ hyperbeamEmbedUrl = NoUrl
       THEN /\ initializingRef' = TRUE
            /\ inits' = Append(Unmounted(inits),
                               [phase |-> "status", isMounted |-> TRUE,
                                actualIsHost |-> isHost])
       ELSE /\ initializingRef' = initializingRef
            /\ inits' = Unmounted(inits)
  /\ UNCHANGED <<hyperbeamAvailable, hyperbeamEmbedUrl, poller, pollDeps, pollsInFlight,
                 priorPolls, pageUnmounted, apiVars, hookVars, now>>

\* initCloudBrowser() number i ends: finally { initializingRef.current = false }
InitEnds(i) ==
  /\ initializingRef' = FALSE
  /\ inits' = RemoveAt(inits, i)

\* await getHyperbeamStatus() settles: "yes" / "no" is the available flag,
\* "error" a rejection.
InitStatus(i, status) ==
  /\ i \in 1..Len(inits)
  /\ inits[i].phase = "status"
  /\ IF ~inits[i].isMounted
       THEN InitEnds(i) /\ UNCHANGED hyperbeamAvailable
       ELSE CASE status = "yes" ->
                   /\ hyperbeamAvailable' = TRUE
                   /\ inits' = [inits EXCEPT ![i].phase = "session"]
                   /\ UNCHANGED initializingRef
              [] status = "no" ->
                   /\ hyperbeamAvailable' = FALSE
                   /\ InitEnds(i)
              [] status = "error" ->
                   /\ hyperbeamAvailable' = FALSE
                   /\ InitEnds(i)
  /\ UNCHANGED <<hyperbeamEmbedUrl, initDeps, poller, pollDeps, pollsInFlight, priorPolls,
                 pageUnmounted, apiVars, hookVars, now>>

\* await getCloudBrowserSession(roomId, actualIsHost) settles: "session", "null"
\* (404) or "error". A host without a session goes on to create one.
InitSession(i, result) ==
  /\ i \in 1..Len(inits)
  /\ inits[i].phase = "session"
  /\ IF ~inits[i].isMounted
       THEN InitEnds(i) /\ UNCHANGED <<hyperbeamAvailable, hyperbeamEmbedUrl, apiVars>>
       ELSE CASE result = "session" ->
                   /\ hyperbeamEmbedUrl' = EmbedUrl
                   /\ InitEnds(i)
                   /\ UNCHANGED <<hyperbeamAvailable, apiVars>>
              [] result = "null" /\ inits[i].actualIsHost ->
                   /\ inits' = [inits EXCEPT ![i].phase = "create"]
                   /\ StartChain("auto")
                   /\ UNCHANGED <<hyperbeamAvailable, hyperbeamEmbedUrl, initializingRef>>
              [] result = "null" /\ ~inits[i].actualIsHost ->
                   /\ InitEnds(i)
                   /\ UNCHANGED <<hyperbeamAvailable, hyperbeamEmbedUrl, apiVars>>
              [] result = "error" ->
                   /\ hyperbeamAvailable' = FALSE
                   /\ InitEnds(i)
                   /\ UNCHANGED <<hyperbeamEmbedUrl, apiVars>>
  /\ UNCHANGED <<initDeps, poller, pollDeps, pollsInFlight, priorPolls, pageUnmounted,
                 hookVars, now>>

\* await createCloudBrowserSessionWithRetry(...) settles.
InitCreate(i) ==
  /\ i \in 1..Len(inits)
  /\ inits[i].phase = "create"
  /\ chain["auto"].phase \in {"returned", "threw"}
  /\ chain' = [chain EXCEPT !["auto"] = IdleChain]
  /\ InitEnds(i)
  /\ IF ~inits[i].isMounted
       THEN UNCHANGED <<hyperbeamAvailable, hyperbeamEmbedUrl>>
       ELSE IF chain["auto"].phase = "returned"
              THEN hyperbeamEmbedUrl' = EmbedUrl /\ UNCHANGED hyperbeamAvailable
              ELSE hyperbeamAvailable' = FALSE /\ UNCHANGED hyperbeamEmbedUrl
  /\ UNCHANGED <<globalRateLimitUntil, initDeps, poller, pollDeps, pollsInFlight, priorPolls,
                 pageUnmounted, hookVars, now>>

\* The polling effect runs: its dependencies changed since it last ran. The
\* previous run's cleanup clears its interval; a viewer without URL whose
\* service is available gets a new interval, with its own pollCount = 0.
RunPollEffect ==
  /\ ~pageUnmounted
  /\ pollDeps # PollDepsNow
  /\ pollDeps' = PollDepsNow
  /\ poller' = IF /\ hyperbeamEmbedUrl = NoUrl
                  /\ isJoined /\ currentParticipant # NoParticipant
                  /\ ~isHost /\ hyperbeamAvailable
                 THEN [active |-> TRUE, pollCount |-> 0]
                 ELSE NoPoller
  /\ pollsInFlight' = [cur |-> 0, old |-> pollsInFlight.old + pollsInFlight.cur]
  /\ priorPolls' = Min(MaxPrior, priorPolls + CallsOf(poller))
  /\ UNCHANGED <<hyperbeamAvailable, hyperbeamEmbedUrl, initializingRef, inits, initDeps,
                 pageUnmounted, apiVars, hookVars, now>>

\* The interval fires: pollCount++, then either the interval is cleared or
\* getCloudBrowserSession(roomId, false) is called.
PollTick ==
  /\ ~pageUnmounted
  /\ poller.active
  /\ pollDeps = PollDepsNow
  /\ IF poller.pollCount + 1 > maxPolls
       THEN /\ poller' = [active |-> FALSE, pollCount |-> poller.pollCount + 1]
            /\ UNCHANGED pollsInFlight
       ELSE /\ pollsInFlight.cur + pollsInFlight.old < MaxInFlight
            /\ poller' = [poller EXCEPT !.pollCount = @ + 1]
            /\ pollsInFlight' = [pollsInFlight EXCEPT !.cur = @ + 1]
  /\ UNCHANGED <<hyperbeamAvailable, hyperbeamEmbedUrl, initializingRef, inits, initDeps,
                 pollDeps, priorPolls, pageUnmounted, apiVars, hookVars, now>>

\* A poll settles: a session sets the URL and clears the interval that made the
\* call; null and errors change nothing. State updates after the unmount are
\* dropped.
PollResponds(gen, result) ==
  /\ pollsInFlight[gen] > 0
  /\ pollsInFlight' = [pollsInFlight EXCEPT ![gen] = @ - 1]
  /\ IF result = "session"
       THEN /\ hyperbeamEmbedUrl' = IF pageUnmounted THEN hyperbeamEmbedUrl ELSE EmbedUrl
            /\ poller' = IF gen = "cur" THEN [poller EXCEPT !.active = FALSE] ELSE poller
       ELSE UNCHANGED <<hyperbeamEmbedUrl, poller>>
  /\ UNCHANGED <<hyperbeamAvailable, initializingRef, inits, initDeps, pollDeps, priorPolls,
                 pageUnmounted, apiVars, hookVars, now>>

\* RoomPage unmounts: the effect cleanups set isMounted = false and clear the
\* interval. (The cleanup of the useRoom effect is Unmount.)
PageUnmount ==
  /\ ~pageUnmounted
  /\ pageUnmounted' = TRUE
  /\ inits' = Unmounted(inits)
  /\ poller' = [poller EXCEPT !.active = FALSE]
  /\ pollsInFlight' = [cur |-> 0, old |-> pollsInFlight.old + pollsInFlight.cur]
  /\ UNCHANGED <<hyperbeamAvailable, hyperbeamEmbedUrl, initializingRef, initDeps, pollDeps,
                 priorPolls, apiVars, hookVars, now>>

\* The state once the effect of useRoom has run: the socket is created and opening,
\* the host token has been read from localStorage.
Mounted(token) ==
  /\ sock = "connecting"
  /\ hostToken = token
  /\ joinPayload = NoJoin
  /\ attempts = 0
  /\ socketRef = "set"
  /\ leaveCalls = 0
  /\ leaveEmits = 0
  /\ sendBuffer = 0
  /\ joinPending = FALSE
  /\ joinEmits = 0
  /\ isConnected = FALSE
  /\ isJoined = FALSE
  /\ error = NoError
  /\ roomInfo = NoRoom
  /\ participants = <<>>
  /\ currentParticipant = NoParticipant
  /\ lastEvent = NoEvent
  /\ replayIds = {}
  /\ onlyHostChanged = FALSE
  /\ hostRemoved = FALSE
  /\ emitsAtRemoval = 0
  /\ graceElapsed = FALSE
  /\ messages = <<>>
  /\ lastChat = [type |-> "none", flip |-> FALSE]
  /\ lastSend = [content |-> <<>>, ref |-> "none", emitted |-> FALSE, flip |-> FALSE]
  /\ playbackState = InitialPlayback
  /\ snapList = NoSnapList
  /\ snapLog = NoSnapLog
  /\ snapState = NoSnapState
  /\ syncDue = FALSE
  /\ now = 0
  /\ video = NoVideo
  /\ isSyncing = FALSE
  /\ syncTimers = {}
  /\ propIsHost = FALSE
  /\ mediaEvents = {}
  /\ lastDrift = -1
  /\ playRejected = FALSE
  /\ lastEmit = NoEmit
  /\ emitBySync = FALSE
  /\ isConnecting = [c \in VoiceClients |-> FALSE]
  /\ isInCall = [c \in VoiceClients |-> FALSE]
  /\ handlerInCall = [c \in VoiceClients |-> FALSE]
  /\ localStream = [c \in VoiceClients |-> "null"]
  /\ voiceParticipants = [c \in VoiceClients |-> <<>>]
  /\ peerConnections = [c \in VoiceClients |-> [p \in VoicePeers |-> NoPc]]
  /\ orphanPcs = [c \in VoiceClients |-> {}]
  /\ isMuted = [c \in VoiceClients |-> FALSE]
  /\ tracksEnabled = [c \in VoiceClients |-> TRUE]
  /\ voiceLeaves = [c \in VoiceClients |-> 0]
  /\ lastVoice = NoVoiceEvent
  /\ voiceUnmounted = {}
  /\ globalRateLimitUntil = 0
  /\ chain = [k \in Callers |-> IdleChain]
  /\ hyperbeamAvailable = FALSE
  /\ hyperbeamEmbedUrl = NoUrl
  /\ initializingRef = FALSE
  /\ inits = <<>>
  /\ initDeps = NoDeps
  /\ poller = NoPoller
  /\ pollDeps = NoDeps
  /\ pollsInFlight = NoPolls
  /\ priorPolls = 0
  /\ pageUnmounted = FALSE
  /\ voiceNet = {}
  /\ voiceRoster = <<>>
  /\ calls = 0

\* a browser that holds no host token for the room
Init == Mounted(NoToken)

\* any browser: with or without a stored host token
InitStored == \E token \in Tokens : Mounted(token)

\* socket.on('connect'): initial connection and every reconnection
\* (a connect handler that would resume a joined session without a new room:join)
ConnectResume ==
  /\ sock \in {"connecting", "reconnecting"}
  /\ joinEmits < MaxJoins
  /\ sock' = "connected"
  /\ attempts' = 0
  /\ isConnected' = TRUE
  /\ error' = NoError
  /\ IF isJoined
       THEN UNCHANGED <<joinPending, joinEmits, joinPayload>>
       ELSE /\ joinPending' = TRUE
            /\ joinEmits' = joinEmits + 1
            /\ joinPayload' = JoinRequest(hostToken)
  /\ lastEvent' = Ev("connect", 0)
  /\ UNCHANGED <<isJoined, roomInfo, listVars, histVars>>
  /\ sendBuffer' = 0
  /\ UNCHANGED <<hostToken, socketRef, leaveCalls, leaveEmits>>
  /\ UNCHANGED otherThanRoom

Connect ==
  /\ sock \in {"connecting", "reconnecting"}
  /\ joinEmits < MaxJoins
  /\ sock' = "connected"
  /\ attempts' = 0
  /\ isConnected' = TRUE
  /\ error' = NoError
  /\ joinPending' = TRUE
  /\ joinEmits' = joinEmits + 1
  /\ joinPayload' = JoinRequest(hostToken)
  /\ lastEvent' = Ev("connect", 0)
  /\ UNCHANGED <<isJoined, roomInfo, listVars, histVars>>
  /\ sendBuffer' = 0
  /\ UNCHANGED <<hostToken, socketRef, leaveCalls, leaveEmits>>
  /\ UNCHANGED otherThanRoom

\* setError(`Connection error: ${err.message}`)
OnConnectErrorKeep(prev, message) == prev

OnConnectError(prev, message) == message

\* socket.on('connect_error'): the first opening or a reconnection attempt failed.
\* The manager tries again until reconnectionAttempts attempts have failed in a row.
ConnectError ==
  /\ sock \in {"connecting", "reconnecting"}
  /\ error' = OnConnectError(error, ErrConnection)
  /\ IF sock = "connecting"
       THEN /\ sock' = "reconnecting"
            /\ attempts' = 0
       ELSE /\ attempts' = attempts + 1
            /\ sock' = IF attempts + 1 >= ReconnectionAttempts THEN "failed" ELSE "reconnecting"
  /\ lastEvent' = Ev("connect_error", 0)
  /\ UNCHANGED <<joinPending, joinEmits, isConnected, isJoined, roomInfo, listVars, histVars>>
  /\ UNCHANGED <<hostToken, joinPayload, socketRef, leaveCalls, leaveEmits, sendBuffer>>
  /\ UNCHANGED otherThanRoom

\* acknowledgement callback of room:join
JoinAck(success, room) ==
  /\ sock = "connected"
  /\ joinPending
  /\ joinPending' = FALSE
  /\ IF success
       THEN /\ roomInfo' = room
            /\ isJoined' = TRUE
            /\ error' = error
       ELSE /\ error' = ErrJoinFailed
            /\ UNCHANGED <<roomInfo, isJoined>>
  /\ lastEvent' = Ev("join-ack", IF success THEN 1 ELSE 0)
  /\ UNCHANGED <<sock, joinEmits, isConnected, chanVars, listVars, histVars>>
  /\ UNCHANGED otherThanRoom

\* socket.on('disconnect')
Disconnect ==
  /\ sock = "connected"
  /\ sock' = "reconnecting"
  /\ joinPending' = FALSE
  /\ isConnected' = FALSE
  /\ lastEvent' = Ev("disconnect", 0)
  /\ snapList' = NoSnapList
  /\ snapLog' = NoSnapLog
  /\ snapState' = NoSnapState
  /\ UNCHANGED <<joinEmits, isJoined, error, roomInfo, chanVars, listVars, replayIds, onlyHostChanged,
                 hostRemoved, emitsAtRemoval, graceElapsed>>
  /\ UNCHANGED <<messages, lastChat, lastSend, playbackState, syncDue, playerVars, now, lastEmit,
                 voiceVars, appVars>>

\* leaveRoom(): if (socketRef.current) { emit('room:leave'); disconnect() }.
\* socket.emit on a socket that is not connected queues the packet; socket.disconnect()
\* on a connected socket runs the disconnect handler.
LeaveRoom ==
  /\ leaveCalls < MaxLeaves
  /\ leaveCalls' = leaveCalls + 1
  /\ IF socketRef = "set"
       THEN /\ leaveEmits' = leaveEmits + 1
            /\ sendBuffer' = IF sock = "connected" THEN sendBuffer ELSE sendBuffer + 1
            /\ sock' = "closed"
            /\ joinPending' = FALSE
            /\ isConnected' = IF sock = "connected" THEN FALSE ELSE isConnected
       ELSE UNCHANGED <<leaveEmits, sendBuffer, sock, joinPending, isConnected>>
  /\ UNCHANGED <<joinEmits, isJoined, error, roomInfo, hostToken, joinPayload, attempts,
                 socketRef, listVars, lastEvent, histVars>>
  /\ UNCHANGED otherThanRoom

\* cleanup of the effect (unmount): emit('room:leave'), removeAllListeners(),
\* disconnect(), socketRef.current = null
Unmount ==
  /\ socketRef = "set"
  /\ socketRef' = "null"
  /\ leaveEmits' = leaveEmits + 1
  /\ sendBuffer' = IF sock = "connected" THEN sendBuffer ELSE sendBuffer + 1
  /\ sock' = "closed"
  /\ joinPending' = FALSE
  /\ UNCHANGED <<joinEmits, isConnected, isJoined, error, roomInfo, hostToken, joinPayload,
                 attempts, leaveCalls, listVars, lastEvent, histVars>>
  /\ UNCHANGED otherThanRoom

(* ------------------- room events --------------------------------------- *)
\* socket.on('room:joined')
RoomJoined(participant, roomParticipants) ==
  /\ sock = "connected"
  /\ currentParticipant' = participant
  /\ participants' = roomParticipants
  /\ lastEvent' = Ev("room:joined", participant.id)
  /\ replayIds' = IdsOf(roomParticipants)
  /\ onlyHostChanged' = TRUE
  /\ hostRemoved' = FALSE
  /\ graceElapsed' = FALSE
  /\ snapList' = IF Rejoined
                   THEN [set |-> TRUE, participant |-> participant,
                         participants |-> roomParticipants,
                         dropped |-> ~(IdsOf(participants) \subseteq IdsOf(roomParticipants))]
                   ELSE NoSnapList
  /\ UNCHANGED <<connVars, emitsAtRemoval>>
  /\ UNCHANGED otherThanRoom

\* socket.on('room:participant-joined')
ParticipantJoined(p) ==
  /\ sock = "connected"
  /\ participants' = OnParticipantJoined(participants, p)
  /\ lastEvent' = Ev("room:participant-joined", p.id)
  /\ replayIds' = replayIds \cup {p.id}
  /\ onlyHostChanged' = FALSE
  /\ snapList' = NoSnapList
  /\ UNCHANGED <<connVars, currentParticipant, hostRemoved, emitsAtRemoval, graceElapsed>>
  /\ UNCHANGED otherThanRoom

\* socket.on('room:participant-left')
ParticipantLeft(participantId) ==
  /\ sock = "connected"
  /\ participants' = OnParticipantLeft(participants, participantId)
  /\ lastEvent' = Ev("room:participant-left", participantId)
  /\ replayIds' = replayIds \ {participantId}
  /\ onlyHostChanged' = FALSE
  /\ IF HasHost(participants, participantId) /\ ~hostRemoved
       THEN hostRemoved' = TRUE /\ emitsAtRemoval' = joinEmits
       ELSE UNCHANGED <<hostRemoved, emitsAtRemoval>>
  /\ snapList' = NoSnapList
  /\ UNCHANGED <<connVars, currentParticipant, graceElapsed>>
  /\ UNCHANGED otherThanRoom

\* socket.on('room:host-changed')
HostChanged(newHostId) ==
  /\ sock = "connected"
  /\ participants' = OnHostChangedList(participants, newHostId)
  /\ currentParticipant' = OnHostChangedSelf(currentParticipant, newHostId)
  /\ lastEvent' = Ev("room:host-changed", newHostId)
  /\ hostRemoved' = FALSE
  /\ graceElapsed' = FALSE
  /\ snapList' = NoSnapList
  /\ UNCHANGED <<connVars, replayIds, onlyHostChanged, emitsAtRemoval>>
  /\ UNCHANGED otherThanRoom

\* socket.on('room:closed')
RoomClosed ==
  /\ sock = "connected"
  /\ error' = ErrRoomClosed
  /\ lastEvent' = Ev("room:closed", 0)
  /\ UNCHANGED <<sock, joinPending, joinEmits, isConnected, isJoined, roomInfo, chanVars,
                 listVars, histVars>>
  /\ UNCHANGED otherThanRoom

\* The grace window after the host's removal passes without a room:host-changed.
\* useRoom arms no timer, so nothing of the hook's state changes.
GraceWindowElapses ==
  /\ hostRemoved
  /\ ~graceElapsed
  /\ graceElapsed' = TRUE
  /\ UNCHANGED <<connVars, listVars, lastEvent, replayIds, onlyHostChanged,
                 hostRemoved, emitsAtRemoval, snapList>>
  /\ UNCHANGED otherThanRoom

(* ------------------- room reconciler specification --------------------- *)
\* A participant joins as a guest; one is announced as host only when the room
\* has none (the host coming back with its host token).
JoinerRoles == IF HostCount(participants) = 0 THEN Roles ELSE {"guest"}

Next ==
  \/ Connect
  \/ \E ps \in Snapshots : \E k \in 1..Len(ps) : RoomJoined(ps[k], ps)
  \/ \E i \in Ids, r \in JoinerRoles : ParticipantJoined(Participant(i, r))
  \/ \E i \in Ids : ParticipantLeft(i)
  \/ \E i \in Ids : HostChanged(i)
  \/ GraceWindowElapses

Spec == Init /\ [][Next]_vars

(* ------------------- claims: room reconciler --------------------------- *)
AfterHostChangedOnly == onlyHostChanged /\ lastEvent.type = "room:host-changed"

C8_ReplayedSet ==
  /\ NoDupIds(participants)
  /\ IdsOf(participants) = replayIds
  /\ \A i \in Ids :
       /\ \A r \in Roles :
            LET p == Participant(i, r)
                once == OnParticipantJoined(participants, p)
            IN OnParticipantJoined(once, p) = once
       /\ LET once == OnParticipantLeft(participants, i)
          IN OnParticipantLeft(once, i) = once

C8_Witness ==
  /\ lastEvent.type = "room:participant-joined"
  /\ lastEvent.rep
  /\ Len(participants) = 3
  /\ participants[3].id = lastEvent.arg
  /\ participants[1].id > participants[2].id

Agree ==
  \A k \in 1..Len(participants) :
    participants[k].id = currentParticipant.id =>
      participants[k].role = currentParticipant.role

\* C9: the state a consumer observes after one room:host-changed event has at
\* most one host, and the list and currentParticipant agree on whether the local
\* participant is host: both updates of the handler land in one transition.
C9_HostChangeAtomic ==
  [][lastEvent'.type = "room:host-changed" /\ lastEvent' # lastEvent =>
       /\ HostCount(participants') <= 1
       /\ Agree'
       /\ (currentParticipant # NoParticipant =>
             (currentParticipant'.role = "host" <=>
                currentParticipant'.id = lastEvent'.arg))]_vars

C9_Witness ==
  /\ lastEvent.type = "room:host-changed"
  /\ ~lastEvent.rep
  /\ currentParticipant.id = lastEvent.arg
  /\ currentParticipant.role = "host"
  /\ HasHost(participants, currentParticipant.id)
  /\ Len(participants) >= 2

NextConn ==
  \/ Connect
  \/ ConnectError
  \/ Disconnect
  \/ \E ok \in BOOLEAN, room \in Rooms : JoinAck(ok, room)
  \/ LeaveRoom
  \/ Unmount

SpecConn == InitStored /\ [][NextConn]_vars

\* An opening or a reconnection attempt of the manager ends: the transport opens or
\* the attempt fails (at the latest after the 20000 ms timeout of the options).
SpecConnFair == SpecConn /\ WF_vars(Connect \/ ConnectError)

\* the transport has just been opened
Opened == sock # "connected" /\ sock' = "connected"

\* C11: every successful transport connection, the first one or one after a
\* reconnection, emits exactly one room:join that carries roomId, userName and the
\* host token read from the store; room:join is emitted at no other moment and no
\* connection resumes a session without it.
C11_JoinOnEveryConnect ==
  [][/\ Opened => /\ joinEmits' = joinEmits + 1
                  /\ joinPending'
                  /\ joinPayload' = JoinRequest(hostToken)
     /\ (joinEmits' # joinEmits \/ joinPayload' # joinPayload) => Opened
     /\ hostToken' = hostToken]_vars

C11_Witness ==
  /\ sock = "connected"
  /\ joinEmits = 2
  /\ joinPending
  /\ isJoined
  /\ joinPayload = JoinRequest("token")

\* C12: after a transport loss at most ReconnectionAttempts (5) reconnection attempts
\* are made; a reconnecting socket does not stay reconnecting for ever; once all
\* attempts have failed the socket retries no more, emits no room:join, and the
\* caller sees isConnected = false together with a non-null error.
C12_BoundedReconnection ==
  /\ [](attempts <= ReconnectionAttempts)
  /\ [](sock = "failed" => /\ attempts = ReconnectionAttempts
                          /\ ~isConnected
                          /\ error # NoError)
  /\ [][sock = "failed" => /\ sock' \in {"failed", "closed"}
                          /\ attempts' = attempts
                          /\ joinEmits' = joinEmits
                          /\ isConnected' = isConnected
                          /\ error' = error]_vars
  /\ (sock = "reconnecting" ~> sock # "reconnecting")

C12_Witness ==
  /\ sock = "failed"
  /\ attempts = ReconnectionAttempts
  /\ isJoined
  /\ joinEmits = 1
  /\ ~isConnected
  /\ error = ErrConnection

\* C13: after a join handshake that the server answered with a failure, the first
\* one or a re-join after a reconnection, error holds the failure reason and the
\* consumers see no joined room (isJoined is false).
C13_FailedJoinNotJoined ==
  (lastEvent.type = "join-ack" /\ lastEvent.arg = 0) =>
     /\ error = ErrJoinFailed
     /\ ~isJoined

\* C14: leaveRoom() is idempotent: the first call on a connected socket emits one
\* room:leave and releases the transport; a further call emits no room:leave and
\* changes no state.
C14_LeaveIdempotent ==
  [][leaveCalls' = leaveCalls + 1 =>
       /\ (leaveCalls = 0 /\ socketRef = "set" /\ sock = "connected") =>
             (leaveEmits' = leaveEmits + 1 /\ sock' = "closed")
       /\ leaveCalls >= 1 =>
             UNCHANGED <<sock, joinPending, joinEmits, isConnected, isJoined, error, roomInfo,
                         hostToken, joinPayload, attempts, socketRef, leaveEmits, sendBuffer,
                         listVars, lastEvent, histVars, otherThanRoom>>]_vars

(* ------------------- useRoom: playback state ---------------------------- *)
Positions == {42000, 44000, 46500}
Rates == {1, 2}
PlaybackStates(stamps) ==
  [isPlaying : BOOLEAN, currentTime : Positions, playbackRate : Rates, lastUpdated : stamps]

\* setPlaybackState(state)
OnPlaybackSync(prev, state) == state

\* setPlaybackState(prev => ({ ...prev, isPlaying: true, currentTime, lastUpdated: Date.now() }))
OnPlaybackPlay(prev, currentTime, t) ==
  [prev EXCEPT !.isPlaying = TRUE, !.currentTime = currentTime, !.lastUpdated = t]

\* setPlaybackState(prev => ({ ...prev, isPlaying: false, currentTime, lastUpdated: Date.now() }))
OnPlaybackPause(prev, currentTime, t) ==
  [prev EXCEPT !.isPlaying = FALSE, !.currentTime = currentTime, !.lastUpdated = t]

\* (a seek handler that also pauses)
OnPlaybackSeekPaused(prev, currentTime, t) ==
  [prev EXCEPT !.isPlaying = FALSE, !.currentTime = currentTime, !.lastUpdated = t]

\* setPlaybackState(prev => ({ ...prev, currentTime, lastUpdated: Date.now() }))
OnPlaybackSeek(prev, currentTime, t) ==
  [prev EXCEPT !.currentTime = currentTime, !.lastUpdated = t]

\* the state media:changed installs
ResetPlayback(t) == [isPlaying |-> FALSE, currentTime |-> 0, playbackRate |-> 1, lastUpdated |-> t]

\* (a media:changed handler that leaves roomInfo alone)
OnMediaChangedKeep(prev, media) == prev

\* setRoomInfo(prev => prev ? { ...prev, mediaUrl, mediaType } : null)
OnMediaChanged(prev, media) ==
  IF prev # NoRoom
    THEN [prev EXCEPT !.mediaUrl = media.mediaUrl, !.mediaType = media.mediaType]
    ELSE NoRoom

\* socket.on('playback:sync')
PlaybackSync(state) ==
  /\ sock = "connected"
  /\ playbackState' = OnPlaybackSync(playbackState, state)
  /\ syncDue' = TRUE
  /\ snapState' = IF Rejoined
                    THEN [set |-> TRUE, state |-> state, dropped |-> playbackState # state]
                    ELSE NoSnapState
  /\ UNCHANGED <<roomVars, chatVars, playerVars, now, lastEmit, voiceVars, appVars>>

\* socket.on('playback:play')
PlaybackPlay(currentTime) ==
  /\ sock = "connected"
  /\ playbackState' = OnPlaybackPlay(playbackState, currentTime, now)
  /\ syncDue' = TRUE
  /\ snapState' = NoSnapState
  /\ UNCHANGED <<roomVars, chatVars, playerVars, now, lastEmit, voiceVars, appVars>>

\* socket.on('playback:pause')
PlaybackPause(currentTime) ==
  /\ sock = "connected"
  /\ playbackState' = OnPlaybackPause(playbackState, currentTime, now)
  /\ syncDue' = TRUE
  /\ snapState' = NoSnapState
  /\ UNCHANGED <<roomVars, chatVars, playerVars, now, lastEmit, voiceVars, appVars>>

\* socket.on('playback:seek')
PlaybackSeek(currentTime) ==
  /\ sock = "connected"
  /\ playbackState' = OnPlaybackSeek(playbackState, currentTime, now)
  /\ syncDue' = TRUE
  /\ snapState' = NoSnapState
  /\ UNCHANGED <<roomVars, chatVars, playerVars, now, lastEmit, voiceVars, appVars>>

\* socket.on('media:changed')
MediaChanged(media) ==
  /\ sock = "connected"
  /\ roomInfo' = OnMediaChanged(roomInfo, media)
  /\ playbackState' = ResetPlayback(now)
  /\ syncDue' = TRUE
  /\ snapState' = NoSnapState
  /\ lastEvent' = Ev("media:changed", media)
  /\ UNCHANGED <<sock, joinPending, joinEmits, isConnected, isJoined, error, chanVars,
                 listVars, histVars>>
  /\ UNCHANGED <<chatVars, playerVars, now, lastEmit, voiceVars, appVars>>

\* useRoom.play / pause / seek: emit when socketRef.current is set
EmitCommand(type, currentTime) ==
  lastEmit' = [type |-> type, role |-> currentParticipant.role]

(* ------------------- VideoPlayer ---------------------------------------- *)
Abs(x) == IF x < 0 THEN -x ELSE x

ExpectedTime(ps, t) ==
  IF ps.isPlaying THEN ps.currentTime + (t - ps.lastUpdated) ELSE ps.currentTime

SeekIfDriftInclusive(v, ps, t) ==
  IF Abs(v.currentTime - ExpectedTime(ps, t)) >= SYNC_THRESHOLD * MsPerSec
    THEN [v EXCEPT !.currentTime = ExpectedTime(ps, t)]
    ELSE v

SeekIfDrift(v, ps, t) ==
  IF Abs(v.currentTime - ExpectedTime(ps, t)) > SYNC_THRESHOLD * MsPerSec
    THEN [v EXCEPT !.currentTime = ExpectedTime(ps, t)]
    ELSE v

\* (a reconciliation that starts the element and never pauses it)
ReconcilePlayOnly(v, ps, playOk) ==
  IF ps.isPlaying /\ v.paused /\ playOk THEN [v EXCEPT !.paused = FALSE] ELSE v

\* video.play() (which the browser may reject: playOk) or video.pause()
ReconcilePlay(v, ps, playOk) ==
  IF ps.isPlaying /\ v.paused
    THEN (IF playOk THEN [v EXCEPT !.paused = FALSE] ELSE v)
    ELSE IF ~ps.isPlaying /\ ~v.paused THEN [v EXCEPT !.paused = TRUE] ELSE v

ReconcileRate(v, ps) ==
  IF v.playbackRate # ps.playbackRate
    THEN [v EXCEPT !.playbackRate = ps.playbackRate]
    ELSE v

SyncVideo(v, ps, t, playOk) ==
  ReconcileRate(ReconcilePlay(SeekIfDrift(v, ps, t), ps, playOk), ps)

\* the events the element queues for the writes that took it from v to w
ElementEvents(v, w, bySync) ==
  {e \in [type : {"play", "pause", "seeked"}, bySync : {bySync}] :
     \/ e.type = "seeked" /\ w.currentTime # v.currentTime
     \/ e.type = "play" /\ v.paused /\ ~w.paused
     \/ e.type = "pause" /\ ~v.paused /\ w.paused}

\* RoomPage shows the room (and VideoPlayer) only when connected and joined
RoomShown == isConnected /\ isJoined
MediaUrlProp == IF roomInfo = NoRoom THEN "" ELSE roomInfo.mediaUrl
HasVideo == RoomShown /\ MediaUrlProp # ""
FreshVideo == [currentTime |-> 0, paused |-> TRUE, playbackRate |-> 1]

\* A render of RoomPage / VideoPlayer with the effects it commits: the closures
\* get the current isHost, the <video> element is created or removed, and the
\* sync effect runs when playbackState or mediaUrl changed.
Render(playOk) ==
  /\ propIsHost # isHost \/ syncDue \/ (video = NoVideo) = HasVideo
  /\ propIsHost' = isHost
  /\ syncDue' = FALSE
  /\ IF ~HasVideo
       THEN /\ video' = NoVideo
            /\ mediaEvents' = {}
            /\ UNCHANGED <<isSyncing, syncTimers, lastDrift, playRejected>>
       ELSE LET v == IF video = NoVideo THEN FreshVideo ELSE video
                w == SyncVideo(v, playbackState, now, playOk)
            IN IF syncDue \/ video = NoVideo
                 THEN /\ isSyncing' = TRUE
                      /\ video' = w
                      /\ mediaEvents' = mediaEvents \cup ElementEvents(v, w, TRUE)
                      /\ syncTimers' = syncTimers \cup {now + SyncGuardMs}
                      /\ lastDrift' = Abs(v.currentTime - ExpectedTime(playbackState, now))
                      /\ playRejected' = (playbackState.isPlaying /\ v.paused /\ ~playOk)
                 ELSE UNCHANGED <<video, mediaEvents, isSyncing, syncTimers, lastDrift, playRejected>>
  /\ UNCHANGED <<roomVars, chatVars, playbackState, snapState, now, lastEmit, emitBySync,
                 voiceVars, appVars>>

\* the 100 ms timer of a sync effect fires
SyncTimerFires ==
  /\ \E d \in syncTimers :
       /\ d <= now
       /\ syncTimers' = syncTimers \ {d}
  /\ isSyncing' = FALSE
  /\ UNCHANGED <<roomVars, chatVars, playVars, video, propIsHost, mediaEvents, now,
                 lastEmit, voiceVars, appVars, lastDrift, playRejected, emitBySync>>

\* handlePlay / handlePause / handleSeek: the element's queued event is delivered
CommandOf(type) ==
  IF type = "play" THEN "playback:play"
  ELSE IF type = "pause" THEN "playback:pause" ELSE "playback:seek"

HandleMediaEvent(e) ==
  /\ e \in mediaEvents
  /\ mediaEvents' = mediaEvents \ {e}
  /\ IF propIsHost /\ ~isSyncing /\ video # NoVideo
       THEN /\ EmitCommand(CommandOf(e.type), video.currentTime)
            /\ emitBySync' = e.bySync
       ELSE UNCHANGED <<lastEmit, emitBySync>>
  /\ UNCHANGED <<roomVars, chatVars, playVars, video, isSyncing, syncTimers, propIsHost,
                 now, lastDrift, playRejected, voiceVars, appVars>>

\* togglePlayPause (click on the element or the play button)
TogglePlayPause ==
  /\ propIsHost
  /\ video # NoVideo
  /\ video' = [video EXCEPT !.paused = ~video.paused]
  /\ mediaEvents' = mediaEvents \cup ElementEvents(video, video', FALSE)
  /\ UNCHANGED <<roomVars, chatVars, playVars, isSyncing, syncTimers, propIsHost, now,
                 lastEmit, voiceVars, appVars, lastDrift, playRejected, emitBySync>>

\* seekTo (progress bar, skip buttons)
SeekTo(time) ==
  /\ propIsHost
  /\ video # NoVideo
  /\ video' = [video EXCEPT !.currentTime = time]
  /\ mediaEvents' = mediaEvents \cup ElementEvents(video, video', FALSE)
  /\ UNCHANGED <<roomVars, chatVars, playVars, isSyncing, syncTimers, propIsHost, now,
                 lastEmit, voiceVars, appVars, lastDrift, playRejected, emitBySync>>

\* time passes: Date.now() advances (the element's own progress while it plays
\* is the browser's and is left out: its position changes by writes only)
Tick ==
  /\ now < MaxTicks * TickMs
  /\ now' = now + TickMs
  /\ UNCHANGED <<roomVars, chatVars, playVars, playerVars, lastEmit, voiceVars, appVars>>

(* ------------------- playback specification ----------------------------- *)
\* the local participant (id 1) with one other participant; either is host
DuoSnapshots == {ps \in Snapshots : IdsOf(ps) = {1, 2}}
\* playback:sync carries the server's stamp, taken when the model's clock started
SyncStamps == {0}

NextPlayback ==
  \/ Connect
  \/ \E room \in Rooms : JoinAck(TRUE, room)
  \/ \E st \in PlaybackStates(SyncStamps) : PlaybackSync(st)
  \/ \E t \in Positions : PlaybackPlay(t)
  \/ \E t \in Positions : PlaybackPause(t)
  \/ \E t \in Positions : PlaybackSeek(t)
  \/ \E ok \in BOOLEAN : Render(ok)
  \/ Tick

SpecPlayback == Init /\ [][NextPlayback]_vars

(* ------------------- host control specification ------------------------- *)
\* one inbound pause and one target of the host's own seeks
HostPositions == {44000}

NextHost ==
  \/ Connect
  \/ \E room \in Rooms : JoinAck(TRUE, room)
  \/ \E ps \in DuoSnapshots : RoomJoined(ps[1], ps)
  \/ \E i \in {1, 2} : HostChanged(i)
  \/ \E t \in HostPositions : PlaybackPause(t)
  \/ \E ok \in BOOLEAN : Render(ok)
  \/ SyncTimerFires
  \/ \E e \in mediaEvents : HandleMediaEvent(e)
  \/ TogglePlayPause
  \/ \E t \in HostPositions : SeekTo(t)
  \/ Tick

SpecHost == Init /\ [][NextHost]_vars

(* ------------------- media and playback events specification ------------ *)
\* media announced by media:changed
ChangedMedia == [mediaUrl : {"a.mp4", "b.mp4"}, mediaType : {"video", "youtube"}]
\* lastUpdated of playback:sync is the server's Date.now(): its clock may be behind
\* or ahead of the local one
SkewedStamps == {0, 4 * TickMs}
MediaPositions == {42000, 44000}

NextMedia ==
  \/ Connect
  \/ \E room \in Rooms : JoinAck(TRUE, room)
  \/ \E media \in ChangedMedia : MediaChanged(media)
  \/ \E st \in PlaybackStates(SkewedStamps) : PlaybackSync(st)
  \/ \E t \in MediaPositions : PlaybackPlay(t)
  \/ \E t \in MediaPositions : PlaybackPause(t)
  \/ \E t \in MediaPositions : PlaybackSeek(t)
  \/ Tick

SpecMedia == Init /\ [][NextMedia]_vars

(* ------------------- claims: playback ----------------------------------- *)
\* a step in which the sync effect ran on an existing or newly created element
SyncRan == HasVideo /\ (syncDue \/ video = NoVideo) /\ isSyncing' /\ ~syncDue'
LocalBefore == IF video = NoVideo THEN 0 ELSE video.currentTime

\* C3: the sync step computes expected = currentTime + (now - lastUpdated) when
\* playing and currentTime when paused; it leaves the element at exactly the
\* expected position iff |local - expected| > 2 s and leaves the element's
\* position unchanged otherwise.
C3_SeekIffDriftOverThreshold ==
  [][SyncRan =>
       LET expected == IF playbackState.isPlaying
                         THEN playbackState.currentTime + (now - playbackState.lastUpdated)
                         ELSE playbackState.currentTime
           drift == IF LocalBefore >= expected THEN LocalBefore - expected
                    ELSE expected - LocalBefore
       IN /\ drift > 2000 => video'.currentTime = expected
          /\ drift <= 2000 => video'.currentTime = LocalBefore
          /\ lastDrift' = drift]_vars

\* paused at 42.0 with the local element at 46.5: it was seeked to 42.0
C3_Witness ==
  /\ lastDrift = 4500
  /\ ~playbackState.isPlaying
  /\ playbackState.currentTime = 42000
  /\ video.currentTime = 42000
  /\ ~syncDue

\* C16 as stated: after every sync step the element is playing iff
\* playbackState.isPlaying and its playbackRate equals playbackState.playbackRate.
C16_PlayingIffIsPlaying ==
  [][SyncRan => /\ ~video'.paused <=> playbackState.isPlaying
                /\ video'.playbackRate = playbackState.playbackRate]_vars

\* C16 amended: after every sync step, whether or not it seeked, the element's
\* playbackRate equals playbackState.playbackRate and the element is paused when
\* playbackState.isPlaying is false; when it is true the element is playing unless
\* the browser rejected video.play() on a paused element, which leaves it paused.
C16_PlayingUnlessRejected ==
  [][SyncRan => /\ video'.playbackRate = playbackState.playbackRate
                /\ ~playbackState.isPlaying => video'.paused /\ ~playRejected'
                /\ playbackState.isPlaying => (video'.paused <=> playRejected')
                /\ playRejected' => (video = NoVideo \/ video.paused)]_vars

\* a sync step that changed the rate to 2 and whose play() was rejected, and one
\* that left the position alone
C16_Witness ==
  /\ ~syncDue
  /\ video # NoVideo
  /\ playbackState.isPlaying
  /\ playbackState.playbackRate = 2
  /\ video.playbackRate = 2
  /\ video.paused
  /\ playRejected
  /\ lastDrift <= SYNC_THRESHOLD * MsPerSec

\* the media:changed handler ran in this step
MediaChangedNow == lastEvent' # lastEvent /\ lastEvent'.type = "media:changed"

\* C17: media:changed sets the playback state to { isPlaying: false, currentTime: 0,
\* playbackRate: 1.0 } in the very step in which roomInfo takes the new mediaUrl and
\* mediaType (a null roomInfo stays null), and no other playback or media step
\* changes the media identity of a room that is set.
C17_MediaChangeAtomic ==
  [][/\ MediaChangedNow =>
          /\ ~playbackState'.isPlaying
          /\ playbackState'.currentTime = 0
          /\ playbackState'.playbackRate = 1
          /\ roomInfo # NoRoom => /\ roomInfo'.mediaUrl = lastEvent'.arg.mediaUrl
                                  /\ roomInfo'.mediaType = lastEvent'.arg.mediaType
          /\ roomInfo = NoRoom => roomInfo' = NoRoom
     /\ (roomInfo # NoRoom /\ roomInfo' # roomInfo) =>
          lastEvent'.type \in {"media:changed", "join-ack"}]_vars

\* the media changed from a.mp4, playing at 44.0, to b.mp4
C17_Witness ==
  /\ lastEvent.type = "media:changed"
  /\ ~lastEvent.rep
  /\ roomInfo = [mediaUrl |-> "b.mp4", mediaType |-> "youtube"]
  /\ playbackState = ResetPlayback(now)
  /\ now = 2 * TickMs
  /\ syncDue

\* C18 as stated: every playback event replaces the PlaybackState as a whole: the
\* state after the event does not depend on the state before it.
C18_WholeReplacement ==
  \A q \in PlaybackStates(SkewedStamps) :
    /\ \A st \in PlaybackStates(SkewedStamps) :
         OnPlaybackSync(playbackState, st) = OnPlaybackSync(q, st)
    /\ \A t \in MediaPositions :
         /\ OnPlaybackPlay(playbackState, t, now) = OnPlaybackPlay(q, t, now)
         /\ OnPlaybackPause(playbackState, t, now) = OnPlaybackPause(q, t, now)
         /\ OnPlaybackSeek(playbackState, t, now) = OnPlaybackSeek(q, t, now)

\* C18 amended: playback:sync replaces the PlaybackState as a whole; playback:play
\* and playback:pause take isPlaying and currentTime from the event and lastUpdated
\* from the local clock and keep the previous playbackRate; playback:seek takes
\* currentTime from the event and lastUpdated from the local clock and keeps the
\* previous isPlaying and playbackRate.
C18_SyncReplacesOthersPatch ==
  /\ \A st \in PlaybackStates(SkewedStamps) : OnPlaybackSync(playbackState, st) = st
  /\ \A t \in MediaPositions :
       /\ OnPlaybackPlay(playbackState, t, now) =
            [isPlaying |-> TRUE, currentTime |-> t,
             playbackRate |-> playbackState.playbackRate, lastUpdated |-> now]
       /\ OnPlaybackPause(playbackState, t, now) =
            [isPlaying |-> FALSE, currentTime |-> t,
             playbackRate |-> playbackState.playbackRate, lastUpdated |-> now]
       /\ OnPlaybackSeek(playbackState, t, now) =
            [isPlaying |-> playbackState.isPlaying, currentTime |-> t,
             playbackRate |-> playbackState.playbackRate, lastUpdated |-> now]

\* a rate of 2 comes from a playback:sync only, a lastUpdated of one tick from a
\* local event only: a later play / pause / seek kept the rate of the sync
C18_Witness ==
  /\ playbackState.playbackRate = 2
  /\ playbackState.isPlaying
  /\ playbackState.currentTime = 44000
  /\ playbackState.lastUpdated = TickMs
  /\ now = TickMs

\* C19: playbackState.lastUpdated never decreases over playback:sync, playback:play,
\* playback:pause, playback:seek and media:changed events.
C19_LastUpdatedMonotonic ==
  [][playbackState'.lastUpdated >= playbackState.lastUpdated]_vars

\* C7: no playback command is emitted while the local participant is not host.
PlaybackCommands == {"playback:play", "playback:pause", "playback:seek", "media:change"}
C7_OnlyHostEmits == lastEmit.type \in PlaybackCommands => lastEmit.role = "host"

\* C15: on the host no playback command is emitted for an element event that a
\* write of the sync step caused, and isSyncing is set during the whole 100 ms
\* after every sync step, also when an earlier step's timer is still pending.
C15_GuardCoversSyncWrites ==
  /\ (lastEmit.type \in PlaybackCommands /\ lastEmit.role = "host") => ~emitBySync
  /\ \A d \in syncTimers : now < d => isSyncing

(* ------------------- useRoom: chat -------------------------------------- *)
ChatMsgIds == 1..NumMsgIds
ChatMessages == [id : ChatMsgIds]

\* duplicate-free logs: what the server's chat:history carries
RECURSIVE LogsOver(_)
LogsOver(S) ==
  {<<>>} \cup UNION {{<<[id |-> i]>> \o t : t \in LogsOver(S \ {i})} : i \in S}

Histories == LogsOver(ChatMsgIds)

OnChatHistoryMerge(prev, history) == prev \o history

OnChatHistory(prev, history) == history

\* (an insertion that keeps the log ordered by timestamp)
OnChatMessageByTime(prev, message) ==
  LET k == Cardinality({j \in 1..Len(prev) : prev[j].timestamp <= message.timestamp})
  IN SubSeq(prev, 1, k) \o <<message>> \o SubSeq(prev, k + 1, Len(prev))

OnChatMessage(prev, message) == Append(prev, message)

\* the chat event being handled
ChatEv(type) == [type |-> type, flip |-> ~lastChat.flip]

\* socket.on('chat:history')
ChatHistory(history) ==
  /\ sock = "connected"
  /\ messages' = OnChatHistory(messages, history)
  /\ lastChat' = ChatEv("chat:history")
  /\ lastSend' = lastSend
  /\ snapLog' = IF Rejoined
                  THEN [set |-> TRUE, log |-> history,
                        dropped |-> ~(IdsOf(messages) \subseteq IdsOf(history))]
                  ELSE NoSnapLog
  /\ UNCHANGED <<roomVars, playVars, playerVars, now, lastEmit, voiceVars, appVars>>

\* socket.on('chat:message')
ChatMessage(message) ==
  /\ sock = "connected"
  /\ Len(messages) < MaxMsgs
  /\ messages' = OnChatMessage(messages, message)
  /\ lastChat' = ChatEv("chat:message")
  /\ lastSend' = lastSend
  /\ snapLog' = NoSnapLog
  /\ UNCHANGED <<roomVars, playVars, playerVars, now, lastEmit, voiceVars, appVars>>

\* content.trim(): the content without its leading and trailing blanks
RECURSIVE TrimStart(_)
TrimStart(content) ==
  IF content # <<>> /\ Head(content) = " " THEN TrimStart(Tail(content)) ELSE content

RECURSIVE TrimEnd(_)
TrimEnd(content) ==
  IF content # <<>> /\ content[Len(content)] = " "
    THEN TrimEnd(SubSeq(content, 1, Len(content) - 1))
    ELSE content

Trim(content) == TrimEnd(TrimStart(content))

\* (a test of the content as typed)
ShouldSendUntrimmed(content, ref) == content # <<>> /\ ref = "set"

\* if (content.trim() && socketRef.current)
ShouldSend(content, ref) == Trim(content) # <<>> /\ ref = "set"

\* sendMessage(content): emits chat:send; a socket that is not connected queues it
SendMessage(content) ==
  /\ sock = "connected" \/ sendBuffer < MaxBuffer
  /\ lastSend' = [content |-> content, ref |-> socketRef,
                  emitted |-> ShouldSend(content, socketRef), flip |-> ~lastSend.flip]
  /\ sendBuffer' = IF ShouldSend(content, socketRef) /\ sock # "connected"
                     THEN sendBuffer + 1 ELSE sendBuffer
  /\ UNCHANGED <<sock, joinPending, joinEmits, isConnected, isJoined, error, roomInfo,
                 hostToken, joinPayload, attempts, socketRef, leaveCalls, leaveEmits,
                 listVars, lastEvent, histVars>>
  /\ UNCHANGED <<messages, lastChat, snapLog, playVars, playerVars, now, lastEmit, voiceVars, appVars>>

(* ------------------- chat specification --------------------------------- *)
ChatRooms == {[mediaUrl |-> "a.mp4", mediaType |-> "video"]}

NextChat ==
  \/ Connect
  \/ Disconnect
  \/ \E ok \in BOOLEAN, room \in ChatRooms : JoinAck(ok, room)
  \/ \E history \in Histories : ChatHistory(history)
  \/ \E message \in ChatMessages : ChatMessage(message)

SpecChat == Init /\ [][NextChat]_vars

(* ------------------- claims: chat --------------------------------------- *)
\* C4: after any interleaving of chat:history and chat:message events, repeats
\* included, the chat log holds no two entries with the same id.
C4_NoDuplicateIds == NoDupIds(messages)

(* ------------------- chat order specification --------------------------- *)
\* messages with the timestamp the server gave them: a live message may carry a
\* timestamp older than entries already in the log
ChatStamps == {10, 20}
StampedMessages == [id : ChatMsgIds, timestamp : ChatStamps]
StampedHistories == {<<>>, <<[id |-> 1, timestamp |-> 10]>>,
                     <<[id |-> 1, timestamp |-> 10], [id |-> 2, timestamp |-> 20]>>}

NextChatOrder ==
  \/ Connect
  \/ \E room \in ChatRooms : JoinAck(TRUE, room)
  \/ \E history \in StampedHistories : ChatHistory(history)
  \/ \E message \in StampedMessages : ChatMessage(message)

SpecChatOrder == Init /\ [][NextChatOrder]_vars

\* the chat:message handler ran in this step
ChatMessageNow == lastChat' # lastChat /\ lastChat'.type = "chat:message"

\* C20: a chat:message adds exactly one entry, the message, after all existing
\* entries whatever its timestamp, and leaves every existing entry in place and
\* unmodified; between two chat events the log does not change.
C20_AppendOnly ==
  [][/\ ChatMessageNow =>
          /\ Len(messages') = Len(messages) + 1
          /\ \A k \in 1..Len(messages) : messages'[k] = messages[k]
     /\ lastChat' = lastChat => messages' = messages]_vars

\* a history of one entry, then a live message stamped 20 and a later one stamped 10
C20_Witness ==
  /\ lastChat.type = "chat:message"
  /\ messages = <<[id |-> 1, timestamp |-> 10], [id |-> 2, timestamp |-> 20],
                  [id |-> 1, timestamp |-> 10]>>

(* ------------------- chat sending specification ------------------------- *)
\* contents typed by the user: characters are a blank or a letter
Contents == {<<>>, <<" ">>, <<" ", "a">>, <<"a", " ">>}
\* what the server sends back in this scenario
SendHistories == {<<>>, <<[id |-> 1, timestamp |-> 10]>>}
SendEchoes == {[id |-> 2, timestamp |-> 20]}

NextSend ==
  \/ Connect
  \/ Disconnect
  \/ \E room \in ChatRooms : JoinAck(TRUE, room)
  \/ \E history \in SendHistories : ChatHistory(history)
  \/ \E message \in SendEchoes : ChatMessage(message)
  \/ \E content \in Contents : SendMessage(content)
  \/ Unmount

SpecSend == Init /\ [][NextSend]_vars

\* C21: sendMessage never changes the chat log, which changes only when a
\* chat:history or chat:message event is handled (a message sent while the socket
\* is disconnected is not added locally); sendMessage emits chat:send iff the
\* content has a non-blank character and the socket reference is set, so content
\* that is empty after trimming emits nothing.
C21_SendLeavesLog ==
  /\ [][/\ lastSend' # lastSend => messages' = messages
        /\ messages' # messages => lastChat' # lastChat]_vars
  /\ [](lastSend.emitted <=>
          /\ \E k \in 1..Len(lastSend.content) : lastSend.content[k] # " "
          /\ lastSend.ref = "set")

\* a message sent (and queued) while the socket is disconnected, the log as it was
C21_Witness ==
  /\ lastSend.emitted
  /\ lastSend.content = <<" ", "a">>
  /\ sock = "reconnecting"
  /\ sendBuffer = 1
  /\ messages = <<[id |-> 1, timestamp |-> 10]>>

(* ------------------- reconnection specification ------------------------- *)
\* the local participant (id 1, host) and one guest
ResyncSnapshots ==
  {ps \in Snapshots : Len(ps) = 2 /\ ps[1] = Participant(1, "host")}
ResyncHistories == {<<>>, <<[id |-> 1]>>, <<[id |-> 1], [id |-> 2]>>}
ResyncMessages == {[id |-> 2]}
ResyncRooms == ChatRooms
ResyncStates ==
  {[isPlaying |-> TRUE, currentTime |-> 42000, playbackRate |-> 1, lastUpdated |-> 0],
   [isPlaying |-> FALSE, currentTime |-> 46500, playbackRate |-> 2, lastUpdated |-> 0]}

NextResync ==
  \/ Connect
  \/ Disconnect
  \/ \E room \in ResyncRooms : JoinAck(TRUE, room)
  \/ \E ps \in ResyncSnapshots : RoomJoined(ps[1], ps)
  \/ \E i \in Ids \ {1} : ParticipantJoined(Participant(i, "guest"))
  \/ \E history \in ResyncHistories : ChatHistory(history)
  \/ \E message \in ResyncMessages : ChatMessage(message)
  \/ \E st \in ResyncStates : PlaybackSync(st)
  \/ \E t \in HostPositions : PlaybackPause(t)

SpecResync == Init /\ [][NextResync]_vars

(* ------------------- claims: reconnection ------------------------------- *)
\* C5: after a transport gap and a re-join, the participant list, the chat log
\* and the playback state each equal the snapshot the server sent (room:joined,
\* chat:history, playback:sync), whatever was held before the gap.
C5_SnapshotReplaces ==
  (Rejoined /\ sock = "connected") =>
    /\ snapList.set =>
         /\ participants = snapList.participants
         /\ currentParticipant = snapList.participant
    /\ snapLog.set => messages = snapLog.log
    /\ snapState.set => playbackState = snapState.state

\* all three snapshots applied after a gap; each replaced entries held before it
C5_Witness ==
  /\ joinEmits = 2 /\ sock = "connected" /\ isJoined
  /\ snapList.set /\ snapLog.set /\ snapState.set
  /\ snapList.dropped /\ snapLog.dropped /\ snapState.dropped
  /\ Len(messages) >= 1

(* ------------------- VoiceCall ------------------------------------------ *)
NewPc(isInitiator) ==
  [role |-> IF isInitiator THEN "initiator" ELSE "responder", remote |-> FALSE, ice |-> FALSE]
Msg(to, type, arg) == [to |-> to, type |-> type, arg |-> arg]

RECURSIVE Without(_, _)
Without(s, x) ==
  IF s = <<>> THEN <<>>
  ELSE IF Head(s) # x THEN <<Head(s)>> \o Without(Tail(s), x) ELSE Without(Tail(s), x)

Members(s) == {s[k] : k \in 1..Len(s)}

\* createPeerConnection returns a connection iff the local stream is held
Created(c) == localStream[c] = "live"

\* peerConnectionsRef.current.set(peerId, pc): the entry is written whether or
\* not one exists; a connection it replaces is neither closed nor referenced
TableAfterCreate(c, peerId, isInitiator) ==
  [peerConnections EXCEPT ![c][peerId] = NewPc(isInitiator)]

OrphansAfterCreate(c, peerId) ==
  IF peerConnections[c][peerId] = NoPc THEN orphanPcs
  ELSE [orphanPcs EXCEPT ![c] =
          @ \cup {[peer |-> peerId, remote |-> peerConnections[c][peerId].remote]}]

\* what a connection sends once its local description is set (offer or answer,
\* then the candidates it gathers)
\* (a negotiation that would send the candidates without the description)
NegotiationCandidatesOnly(c, peerId, type) ==
  {Msg(peerId, "voice:ice-candidate", c)}

Negotiation(c, peerId, type) ==
  {Msg(peerId, type, c), Msg(peerId, "voice:ice-candidate", c)}

\* joinCall up to the await of getUserMedia
JoinCall(c) ==
  /\ ~isInCall[c]
  /\ ~isConnecting[c]
  /\ calls < MaxCalls
  /\ calls' = calls + 1
  /\ isConnecting' = [isConnecting EXCEPT ![c] = TRUE]
  /\ UNCHANGED <<isInCall, handlerInCall, localStream, voiceParticipants, peerConnections,
                 orphanPcs, voiceNet, voiceRoster, micVars>>
  /\ UNCHANGED otherThanVoice

\* getUserMedia resolved: the stream is kept and voice:join is emitted; the room
\* answers the newcomer with the roster and announces it to the voice members
MicGranted(c) ==
  /\ isConnecting[c]
  /\ localStream' = [localStream EXCEPT ![c] = "live"]
  /\ isInCall' = [isInCall EXCEPT ![c] = TRUE]
  /\ isConnecting' = [isConnecting EXCEPT ![c] = FALSE]
  /\ voiceRoster' = Append(Without(voiceRoster, c), c)
  /\ voiceNet' = voiceNet
       \cup (IF Members(voiceRoster) \ {c} = {}
               THEN {Msg(c, "voice:participants", 0)}
               ELSE {Msg(c, "voice:participants", p) : p \in Members(voiceRoster) \ {c}})
       \cup {Msg(p, "voice:participant-joined", c) : p \in Members(voiceRoster) \ {c}}
  /\ tracksEnabled' = [tracksEnabled EXCEPT ![c] = TRUE]
  /\ UNCHANGED <<handlerInCall, voiceParticipants, peerConnections, orphanPcs>>
  /\ UNCHANGED <<isMuted, voiceLeaves, lastVoice, calls, otherThanVoice>>

\* getUserMedia rejected: catch { setIsConnecting(false); alert(...) }
\* (a catch block that would enter the call without a stream)
MicDeniedEnters(c) ==
  /\ isConnecting[c]
  /\ isConnecting' = [isConnecting EXCEPT ![c] = FALSE]
  /\ isInCall' = [isInCall EXCEPT ![c] = TRUE]
  /\ UNCHANGED <<handlerInCall, localStream, voiceParticipants, peerConnections,
                 orphanPcs, voiceNet, voiceRoster, micVars>>
  /\ UNCHANGED <<calls, otherThanVoice>>

MicDenied(c) ==
  /\ isConnecting[c]
  /\ isConnecting' = [isConnecting EXCEPT ![c] = FALSE]
  /\ UNCHANGED <<isInCall, handlerInCall, localStream, voiceParticipants, peerConnections,
                 orphanPcs, voiceNet, voiceRoster, micVars>>
  /\ UNCHANGED <<calls, otherThanVoice>>

\* a render of VoiceCall after isInCall changed: the handlers effect subscribes
\* again with the new isInCall, and the cleanup of the effect
\* useEffect(() => () => { if (isInCall) leaveCall() }, [isInCall, leaveCall])
\* runs with the isInCall of the render before, so that leaveCall runs once more
\* when isInCall went from true to false
RenderVoice(c) ==
  /\ handlerInCall[c] # isInCall[c]
  /\ handlerInCall' = [handlerInCall EXCEPT ![c] = isInCall[c]]
  /\ IF handlerInCall[c]
       THEN /\ localStream' = [localStream EXCEPT ![c] = "null"]
            /\ peerConnections' = [peerConnections EXCEPT ![c] = [p \in VoicePeers |-> NoPc]]
            /\ voiceLeaves' = [voiceLeaves EXCEPT ![c] = @ + 1]
            /\ isMuted' = [isMuted EXCEPT ![c] = FALSE]
            /\ voiceParticipants' = [voiceParticipants EXCEPT ![c] = <<>>]
       ELSE UNCHANGED <<localStream, peerConnections, voiceLeaves, isMuted, voiceParticipants>>
  /\ UNCHANGED <<isConnecting, isInCall, orphanPcs, voiceNet, voiceRoster, tracksEnabled,
                 lastVoice>>
  /\ UNCHANGED <<calls, otherThanVoice>>

\* leaveCall
LeaveCall(c) ==
  /\ isInCall[c]
  /\ localStream' = [localStream EXCEPT ![c] = "null"]
  /\ peerConnections' = [peerConnections EXCEPT ![c] = [p \in VoicePeers |-> NoPc]]
  /\ voiceLeaves' = [voiceLeaves EXCEPT ![c] = @ + 1]
  /\ isInCall' = [isInCall EXCEPT ![c] = FALSE]
  /\ isMuted' = [isMuted EXCEPT ![c] = FALSE]
  /\ voiceParticipants' = [voiceParticipants EXCEPT ![c] = <<>>]
  /\ voiceRoster' = Without(voiceRoster, c)
  /\ voiceNet' = voiceNet
       \cup {Msg(p, "voice:participant-left", c) : p \in Members(voiceRoster) \ {c}}
  /\ UNCHANGED <<isConnecting, handlerInCall, orphanPcs, tracksEnabled, lastVoice>>
  /\ UNCHANGED <<calls, otherThanVoice>>

\* VoiceCall unmounts: the handlers are unsubscribed and the cleanup of the effect
\* useEffect(() => () => { if (isInCall) leaveCall() }, [isInCall, leaveCall]) runs
\* with the isInCall of the last render. Nothing cancels a pending getUserMedia, and
\* state setters of an unmounted component have no effect.
UnmountVoice(c) ==
  /\ c \notin voiceUnmounted
  /\ voiceUnmounted' = voiceUnmounted \cup {c}
  /\ IF handlerInCall[c]
       THEN /\ localStream' = [localStream EXCEPT ![c] = "null"]
            /\ peerConnections' = [peerConnections EXCEPT ![c] = [p \in VoicePeers |-> NoPc]]
            /\ voiceLeaves' = [voiceLeaves EXCEPT ![c] = @ + 1]
            /\ voiceRoster' = Without(voiceRoster, c)
            /\ voiceNet' = voiceNet
                 \cup {Msg(p, "voice:participant-left", c) : p \in Members(voiceRoster) \ {c}}
       ELSE UNCHANGED <<localStream, peerConnections, voiceLeaves, voiceRoster, voiceNet>>
  /\ UNCHANGED <<isConnecting, isInCall, handlerInCall, voiceParticipants, orphanPcs, isMuted,
                 tracksEnabled, lastVoice, calls>>
  /\ UNCHANGED <<roomVars, chatVars, playVars, playerVars, now, lastEmit, apiVars, pageVars>>

\* toggleMute: if (!socket || !localStreamRef.current) return; the tracks get
\* enabled = !newMuted, setIsMuted(newMuted), socket.emit('voice:mute', newMuted)
\* (a toggleMute that would write the tracks with the muted value itself)
ToggleMuteSame(c) ==
  LET newMuted == ~isMuted[c]
  IN /\ Created(c)
     /\ tracksEnabled' = [tracksEnabled EXCEPT ![c] = newMuted]
     /\ isMuted' = [isMuted EXCEPT ![c] = newMuted]
     /\ lastVoice' = [op |-> "voice:mute", c |-> c, peer |-> 0, value |-> newMuted,
                      flip |-> ~lastVoice.flip]
     /\ UNCHANGED <<isConnecting, isInCall, handlerInCall, localStream, voiceParticipants,
                    peerConnections, orphanPcs, voiceNet, voiceRoster, voiceLeaves>>
     /\ UNCHANGED <<calls, otherThanVoice>>

ToggleMute(c) ==
  LET newMuted == ~isMuted[c]
  IN /\ Created(c)
     /\ tracksEnabled' = [tracksEnabled EXCEPT ![c] = ~newMuted]
     /\ isMuted' = [isMuted EXCEPT ![c] = newMuted]
     /\ lastVoice' = [op |-> "voice:mute", c |-> c, peer |-> 0, value |-> newMuted,
                      flip |-> ~lastVoice.flip]
     /\ UNCHANGED <<isConnecting, isInCall, handlerInCall, localStream, voiceParticipants,
                    peerConnections, orphanPcs, voiceNet, voiceRoster, voiceLeaves>>
     /\ UNCHANGED <<calls, otherThanVoice>>

\* pc.onconnectionstatechange with 'failed' or 'disconnected' on a connection of
\* client c created for peerId, be it the table's entry or one replaced in the table
\* (orphan): cleanupPeerConnection(peerId) closes and deletes the entry the table
\* holds for peerId at that moment. A connection reaches these states only after
\* a remote description was applied.
\* (a handler that would close every connection of the table)
PcFailsAll(c, peerId, orphan) ==
  /\ IF orphan THEN [peer |-> peerId, remote |-> TRUE] \in orphanPcs[c]
               ELSE peerConnections[c][peerId] # NoPc /\ peerConnections[c][peerId].remote
  /\ peerConnections' = [peerConnections EXCEPT ![c] = [p \in VoicePeers |-> NoPc]]
  /\ lastVoice' = [op |-> "failed", c |-> c, peer |-> peerId, value |-> orphan,
                   flip |-> ~lastVoice.flip]
  /\ UNCHANGED <<isConnecting, isInCall, handlerInCall, localStream, voiceParticipants,
                 orphanPcs, voiceNet, voiceRoster, isMuted, tracksEnabled, voiceLeaves>>
  /\ UNCHANGED <<calls, otherThanVoice>>

PcFails(c, peerId, orphan) ==
  /\ IF orphan THEN [peer |-> peerId, remote |-> TRUE] \in orphanPcs[c]
               ELSE peerConnections[c][peerId] # NoPc /\ peerConnections[c][peerId].remote
  /\ peerConnections' = [peerConnections EXCEPT ![c][peerId] = NoPc]
  /\ lastVoice' = [op |-> "failed", c |-> c, peer |-> peerId, value |-> orphan,
                   flip |-> ~lastVoice.flip]
  /\ UNCHANGED <<isConnecting, isInCall, handlerInCall, localStream, voiceParticipants,
                 orphanPcs, voiceNet, voiceRoster, isMuted, tracksEnabled, voiceLeaves>>
  /\ UNCHANGED <<calls, otherThanVoice>>

\* socket.on('voice:participants'); the roster names the one other member, or none
OnVoiceParticipants(m) ==
  LET c == m.to
      p == m.arg
  IN /\ voiceParticipants' =
          [voiceParticipants EXCEPT ![c] = IF p = 0 \/ p = c THEN <<>> ELSE <<p>>]
     /\ IF p # 0 /\ p # c /\ handlerInCall[c] /\ Created(c)
          THEN /\ peerConnections' = TableAfterCreate(c, p, TRUE)
               /\ orphanPcs' = OrphansAfterCreate(c, p)
               /\ voiceNet' = (voiceNet \ {m}) \cup Negotiation(c, p, "voice:offer")
          ELSE /\ voiceNet' = voiceNet \ {m}
               /\ UNCHANGED <<peerConnections, orphanPcs>>

\* socket.on('voice:participant-joined')
OnVoiceParticipantJoined(m) ==
  LET c == m.to
      p == m.arg
  IN /\ voiceParticipants' =
          [voiceParticipants EXCEPT ![c] = Append(Without(@, p), p)]
     /\ voiceNet' = voiceNet \ {m}
     /\ IF handlerInCall[c] /\ p # c /\ Created(c)
          THEN /\ peerConnections' = TableAfterCreate(c, p, FALSE)
               /\ orphanPcs' = OrphansAfterCreate(c, p)
          ELSE UNCHANGED <<peerConnections, orphanPcs>>

\* socket.on('voice:participant-left'): cleanupPeerConnection closes the entry
OnVoiceParticipantLeft(m) ==
  LET c == m.to
      p == m.arg
  IN /\ voiceParticipants' = [voiceParticipants EXCEPT ![c] = Without(@, p)]
     /\ peerConnections' = [peerConnections EXCEPT ![c][p] = NoPc]
     /\ voiceNet' = voiceNet \ {m}
     /\ UNCHANGED orphanPcs

\* socket.on('voice:offer'). An offer applied to a connection that has its own
\* offer pending is rejected or rolls the local offer back, as the browser does.
OnVoiceOffer(m, rollback) ==
  LET c == m.to
      from == m.arg
      had == peerConnections[c][from]
      pc == IF had # NoPc THEN had ELSE IF Created(c) THEN NewPc(FALSE) ELSE NoPc
      glare == pc.role = "initiator" /\ ~pc.remote
  IN /\ UNCHANGED <<voiceParticipants, orphanPcs>>
     /\ IF pc = NoPc
          THEN /\ voiceNet' = voiceNet \ {m}
               /\ UNCHANGED peerConnections
          ELSE IF glare /\ ~rollback
            THEN /\ voiceNet' = voiceNet \ {m}
                 /\ peerConnections' = [peerConnections EXCEPT ![c][from] = pc]
            ELSE /\ peerConnections' =
                      [peerConnections EXCEPT ![c][from] =
                         [role |-> IF glare THEN "responder" ELSE pc.role,
                          remote |-> TRUE, ice |-> pc.ice]]
                 /\ voiceNet' = (voiceNet \ {m}) \cup Negotiation(c, from, "voice:answer")

\* socket.on('voice:answer'): applies to a connection whose own offer is pending
OnVoiceAnswer(m) ==
  LET c == m.to
      from == m.arg
      pc == peerConnections[c][from]
  IN /\ voiceNet' = voiceNet \ {m}
     /\ UNCHANGED <<voiceParticipants, orphanPcs>>
     /\ IF pc # NoPc /\ pc.role = "initiator" /\ ~pc.remote
          THEN peerConnections' = [peerConnections EXCEPT ![c][from].remote = TRUE]
          ELSE UNCHANGED peerConnections

\* socket.on('voice:ice-candidate'): added when the entry exists and has a
\* remote description, lost otherwise
OnVoiceIceCandidate(m) ==
  LET c == m.to
      from == m.arg
      pc == peerConnections[c][from]
  IN /\ voiceNet' = voiceNet \ {m}
     /\ UNCHANGED <<voiceParticipants, orphanPcs>>
     /\ IF pc # NoPc /\ pc.remote
          THEN peerConnections' = [peerConnections EXCEPT ![c][from].ice = TRUE]
          ELSE UNCHANGED peerConnections

\* one signalling message reaches its client, in any order
Deliver(m, rollback) ==
  /\ m \in voiceNet
  /\ CASE m.type = "voice:participants" -> OnVoiceParticipants(m)
       [] m.type = "voice:participant-joined" -> OnVoiceParticipantJoined(m)
       [] m.type = "voice:participant-left" -> OnVoiceParticipantLeft(m)
       [] m.type = "voice:offer" -> OnVoiceOffer(m, rollback)
       [] m.type = "voice:answer" -> OnVoiceAnswer(m)
       [] OTHER -> OnVoiceIceCandidate(m)
  /\ UNCHANGED <<isConnecting, isInCall, handlerInCall, localStream, voiceRoster, micVars>>
  /\ UNCHANGED <<calls, otherThanVoice>>

\* the room relays to client 1 a voice event of another participant; one event
\* is on its way to the client at a time, in any order
PeerEventTypes ==
  {"voice:participant-joined", "voice:participant-left", "voice:offer", "voice:answer",
   "voice:ice-candidate"}
RemotePeers == VoicePeers \ {1}
\* every event of participant 2, and the offer of participant 3
PeerMsgs == {Msg(1, type, 2) : type \in PeerEventTypes} \cup {Msg(1, "voice:offer", 3)}

Relay(m) ==
  /\ \A x \in voiceNet : x.to # m.to
  /\ voiceNet' = voiceNet \cup {m}
  /\ UNCHANGED <<isConnecting, isInCall, handlerInCall, localStream, voiceParticipants,
                 peerConnections, orphanPcs, voiceRoster, micVars>>
  /\ UNCHANGED <<calls, otherThanVoice>>

\* participant p was in the call when client c joined: the roster sent in reply to
\* its voice:join names p
RosterNames(c, p) ==
  /\ Msg(c, "voice:participants", 0) \in voiceNet
  /\ voiceNet' = (voiceNet \ {Msg(c, "voice:participants", 0)})
                    \cup {Msg(c, "voice:participants", p)}
  /\ UNCHANGED <<isConnecting, isInCall, handlerInCall, localStream, voiceParticipants,
                 peerConnections, orphanPcs, voiceRoster, micVars>>
  /\ UNCHANGED <<calls, otherThanVoice>>

(* ------------------- voice specification -------------------------------- *)
NextVoice ==
  \/ Connect
  \/ \E room \in ResyncRooms : JoinAck(TRUE, room)
  \/ RoomClosed
  \/ \E c \in VoiceClients : JoinCall(c)
  \/ \E c \in VoiceClients : MicGranted(c)
  \/ \E c \in VoiceClients : MicDenied(c)
  \/ \E c \in VoiceClients : RenderVoice(c)
  \/ \E c \in VoiceClients : LeaveCall(c)
  \/ \E m \in voiceNet, rollback \in BOOLEAN : Deliver(m, rollback)

SpecVoice == Init /\ [][NextVoice]_vars

(* ------------------- claims: voice -------------------------------------- *)
\* RTCPeerConnections of client c toward p that were created and never closed
LivePcs(c, p) ==
  (IF peerConnections[c][p] # NoPc THEN 1 ELSE 0)
    + (IF \E o \in orphanPcs[c] : o.peer = p THEN 1 ELSE 0)

VoiceQuiet ==
  /\ voiceNet = {}
  /\ \A c \in VoiceClients : handlerInCall[c] = isInCall[c] /\ ~isConnecting[c]

\* C2: for clients a, b both in the call, a having joined first, once signalling
\* has quiesced a holds one link to b in responder role and b one link to a in
\* initiator role, whatever the delivery order; and at no time does a client hold
\* two live RTCPeerConnections for the same remote id.
C2_OnePeerLinkPerPair ==
  /\ \A c, p \in VoiceClients : LivePcs(c, p) <= 1
  /\ \A a, b \in VoiceClients :
       (VoiceQuiet /\ voiceRoster = <<a, b>> /\ isInCall[a] /\ isInCall[b]) =>
         /\ peerConnections[a][b].role = "responder"
         /\ peerConnections[b][a].role = "initiator"

\* C6: once room:closed has been handled the consumer sees no joined, live room
\* and the local participant's voice call is torn down: no live connection, no
\* live microphone stream.
C6_ClosedTearsDown ==
  error = ErrRoomClosed =>
    /\ ~(isConnected /\ isJoined)
    /\ localStream[1] = "null"
    /\ \A p \in VoiceClients : LivePcs(1, p) = 0

\* C22: every path of VoiceCall that creates a connection for remote id X (roster,
\* voice:participant-joined, voice:offer) creates it only if the table holds none
\* for X: no connection is ever replaced in the table and left open without an
\* entry.
C22_CreateOnlyIfAbsent ==
  \A c \in VoiceClients : orphanPcs[c] = {}

\* C23: when the voice:participants roster reaches a client that has acquired
\* the microphone and emitted voice:join, the client opens an initiator connection
\* to every roster member other than itself and sends it a voice:offer, whether or
\* not the component has rendered since isInCall was set.
C23_RosterOpensInitiatorLinks ==
  [][\A m \in voiceNet \ voiceNet' :
       (m.type = "voice:participants" /\ m.arg # 0 /\ m.arg # m.to /\ isInCall[m.to]) =>
          /\ peerConnections'[m.to][m.arg].role = "initiator"
          /\ Msg(m.arg, "voice:offer", m.to) \in voiceNet']_vars

\* C25: no received ICE candidate is dropped: once signalling has quiesced, every
\* connection of the table that has a remote description has been given the
\* candidates its peer sent, also those that arrived before the offer or answer.
C25_NoCandidateLost ==
  \A c, p \in VoiceClients :
    (VoiceQuiet /\ isInCall[c] /\ isInCall[p]
       /\ peerConnections[c][p] # NoPc /\ peerConnections[c][p].remote) =>
      peerConnections[c][p].ice

\* C27: after leaveCall no local stream is held, the table is empty with every
\* connection closed, isInCall and isMuted are reset and one voice:leave has been
\* emitted for the call that was left (never more voice:leave than joinCall);
\* voice:participant-left(X) removes X from the roster and closes the link to X.
C27_LeaveReleasesAll ==
  /\ [](\A c \in VoiceClients :
          (~isInCall[c] /\ ~isConnecting[c]) =>
             /\ localStream[c] = "null"
             /\ ~isMuted[c]
             /\ \A p \in VoicePeers : LivePcs(c, p) = 0)
  /\ [](voiceLeaves[1] + voiceLeaves[2] <= calls)
  /\ [][\A m \in voiceNet \ voiceNet' :
          m.type = "voice:participant-left" =>
             /\ m.arg \notin Members(voiceParticipants'[m.to])
             /\ LivePcs(m.to, m.arg)' = 0]_vars

(* ------------------- one client and its peers --------------------------- *)
\* VoiceCall of client 1 with the voice events of participants 2 and 3 relayed in
\* any order; what client 1 emits toward them stays in voiceNet.
NextPeer ==
  \/ JoinCall(1)
  \/ MicGranted(1)
  \/ RenderVoice(1)
  \/ LeaveCall(1)
  \/ RosterNames(1, 2)
  \/ \E m \in PeerMsgs : Relay(m)
  \/ \E m \in voiceNet, rollback \in BOOLEAN : m.to = 1 /\ Deliver(m, rollback)
  \/ \E p \in RemotePeers, orphan \in BOOLEAN : PcFails(1, p, orphan)

SpecPeer == Init /\ [][NextPeer]_vars

MuteMsgs == {Msg(1, type, 2) : type \in {"voice:participant-joined", "voice:offer"}}

NextMute ==
  \/ JoinCall(1)
  \/ MicGranted(1)
  \/ MicDenied(1)
  \/ RenderVoice(1)
  \/ LeaveCall(1)
  \/ ToggleMute(1)
  \/ \E m \in MuteMsgs : Relay(m)
  \/ \E m \in voiceNet, rollback \in BOOLEAN : m.to = 1 /\ Deliver(m, rollback)

SpecMute == Init /\ [][NextMute]_vars

(* ------------------- teardown ------------------------------------------- *)
\* VoiceCall of client 1 up to its unmount; a getUserMedia that is pending at the
\* unmount still settles afterwards
Alive(c) == c \notin voiceUnmounted

NextTeardown ==
  \/ Alive(1) /\ JoinCall(1)
  \/ MicGranted(1)
  \/ MicDenied(1)
  \/ Alive(1) /\ RenderVoice(1)
  \/ Alive(1) /\ LeaveCall(1)
  \/ UnmountVoice(1)
  \/ \E m \in MuteMsgs : Relay(m)
  \/ \E m \in voiceNet, rollback \in BOOLEAN : Alive(1) /\ m.to = 1 /\ Deliver(m, rollback)

SpecTeardown == Init /\ [][NextTeardown]_vars

\* the roster of client 1 under any sequence of joined / left announcements
RosterMsgs ==
  {Msg(1, type, p) : type \in {"voice:participant-joined", "voice:participant-left"},
                     p \in VoicePeers}

NextRoster ==
  \/ JoinCall(1)
  \/ MicGranted(1)
  \/ RenderVoice(1)
  \/ RosterNames(1, 2)
  \/ \E m \in RosterMsgs : Relay(m)
  \/ \E m \in voiceNet, rollback \in BOOLEAN : m.to = 1 /\ Deliver(m, rollback)

SpecRoster == Init /\ [][NextRoster]_vars

\* the connection failure handled in this step
PcFailed == lastVoice' # lastVoice /\ lastVoice'.op = "failed"

\* C26: when a connection's state becomes failed or disconnected, that connection
\* is closed and the table holds no entry for its peer, nothing is sent toward the
\* peer, and a connection toward a peer is created only when a voice event of that
\* peer is handled.
C26_FailedLinkClosed ==
  [][/\ \A c \in VoiceClients, p \in VoicePeers :
          (PcFailed /\ lastVoice'.c = c /\ lastVoice'.peer = p) =>
             /\ IF lastVoice'.value
                  THEN [peer |-> p, remote |-> TRUE] \notin orphanPcs'[c]
                  ELSE peerConnections'[c][p] = NoPc
             /\ LivePcs(c, p)' = LivePcs(c, p) - 1
             /\ voiceNet' = voiceNet
     /\ \A c \in VoiceClients, q \in VoicePeers :
          (peerConnections[c][q] = NoPc /\ peerConnections'[c][q] # NoPc) =>
             \E m \in voiceNet \ voiceNet' : m.to = c /\ m.arg = q]_vars

\* C28: toggleMute negates isMuted, gives the local audio tracks enabled = not
\* muted, emits voice:mute with the new value and changes nothing of the
\* connections and of the signalling; while in a call isMuted is true iff the local
\* tracks are disabled.
C28_MuteTogglesTracksOnly ==
  /\ [][(lastVoice' # lastVoice /\ lastVoice'.op = "voice:mute") =>
          /\ isMuted'[lastVoice'.c] = ~isMuted[lastVoice'.c]
          /\ lastVoice'.value = isMuted'[lastVoice'.c]
          /\ tracksEnabled'[lastVoice'.c] = ~isMuted'[lastVoice'.c]
          /\ UNCHANGED <<peerConnections, orphanPcs, voiceNet, voiceRoster, localStream,
                         isInCall, isConnecting, voiceParticipants, voiceLeaves>>]_vars
  /\ [](\A c \in VoiceClients : isInCall[c] => (isMuted[c] <=> ~tracksEnabled[c]))

C28_Witness ==
  /\ isInCall[1]
  /\ isMuted[1]
  /\ ~tracksEnabled[1]
  /\ lastVoice = [op |-> "voice:mute", c |-> 1, peer |-> 0, value |-> TRUE, flip |-> TRUE]
  /\ peerConnections[1][2].remote
  /\ calls = 2

\* C29: a joinCall whose microphone acquisition ends without a stream does not
\* enter the call: isInCall stays false, no voice:join is emitted (no roster, no
\* announcement), no connection is created, and isConnecting is false again, so
\* that joinCall can be attempted again.
C29_DeniedStaysOut ==
  [][\A c \in VoiceClients :
       (isConnecting[c] /\ ~isConnecting'[c] /\ localStream'[c] = "null") =>
          /\ ~isInCall'[c]
          /\ UNCHANGED <<isInCall, localStream, voiceNet, voiceRoster, peerConnections,
                         orphanPcs, voiceParticipants, voiceLeaves>>]_vars

C29_Witness ==
  /\ calls = 2
  /\ isConnecting[1]
  /\ ~isInCall[1]
  /\ localStream[1] = "null"
  /\ voiceLeaves[1] = 0
  /\ voiceRoster = <<>>

\* C30: a connection failure on the link to X, or a signalling message of X
\* (offer, answer, candidate) whatever its outcome, changes no connection toward
\* another peer and nothing of the local stream, of isInCall and of the room, chat
\* and playback state.
C30_FailureStaysLocal ==
  [][/\ PcFailed =>
          /\ \A q \in VoicePeers \ {lastVoice'.peer} :
               peerConnections'[lastVoice'.c][q] = peerConnections[lastVoice'.c][q]
          /\ \A d \in VoiceClients \ {lastVoice'.c} : peerConnections'[d] = peerConnections[d]
          /\ {o \in orphanPcs'[lastVoice'.c] : o.peer # lastVoice'.peer}
               = {o \in orphanPcs[lastVoice'.c] : o.peer # lastVoice'.peer}
          /\ UNCHANGED <<localStream, isInCall, isConnecting, isMuted, tracksEnabled,
                         voiceParticipants, voiceNet, voiceRoster, otherThanVoice>>
     /\ \A m \in voiceNet \ voiceNet' :
          m.type \in {"voice:offer", "voice:answer", "voice:ice-candidate"} =>
             /\ \A q \in VoicePeers \ {m.arg} :
                  peerConnections'[m.to][q] = peerConnections[m.to][q]
             /\ UNCHANGED <<localStream, isInCall, isMuted, tracksEnabled, voiceParticipants,
                            otherThanVoice>>]_vars

C30_Witness ==
  /\ lastVoice.op = "failed"
  /\ lastVoice.peer = 2
  /\ peerConnections[1][2] = NoPc
  /\ peerConnections[1][3].remote
  /\ isInCall[1]
  /\ localStream[1] = "live"

\* C31: once VoiceCall has unmounted, whatever was pending at that moment, no
\* microphone stream is held, the client is not (or no longer) announced to the
\* call by a voice:join, and its table holds no connection.
C31_NothingAfterUnmount ==
  \A c \in voiceUnmounted :
    /\ localStream[c] = "null"
    /\ c \notin Members(voiceRoster)
    /\ \A p \in VoicePeers : peerConnections[c][p] = NoPc

\* C32: the voice teardown is idempotent: a teardown that finds the call already
\* left (no call entered, no stream, empty table) emits no voice:leave.
C32_TeardownIdempotent ==
  [][\A c \in VoiceClients :
       (~isInCall[c] /\ localStream[c] = "null"
          /\ \A p \in VoicePeers : peerConnections[c][p] = NoPc) =>
         voiceLeaves'[c] = voiceLeaves[c]]_vars

\* C33: a connection-state callback (failed / disconnected) of a connection that
\* is no longer the table's entry for its peer closes and removes no entry of the
\* table: the newer connection that occupies the entry is left alone.
C33_CallbackOwnLinkOnly ==
  [][(PcFailed /\ lastVoice'.value) => peerConnections' = peerConnections]_vars

\* C40: the local voice roster never holds two entries with the same id and
\* never holds the local participant's own id, whatever announcements arrive.
C40_RosterDistinctNoSelf ==
  \A c \in VoiceClients :
    /\ Cardinality(Members(voiceParticipants[c])) = Len(voiceParticipants[c])
    /\ c \notin Members(voiceParticipants[c])

(* ------------------- claims: local role --------------------------------- *)
\* C39 (as stated): whenever currentParticipant is set and its id is in the
\* participants list, its role is the role of that entry, so isHost is true iff
\* the list marks the local participant as host, after any sequence of room events.
C39_RoleAgrees ==
  (currentParticipant # NoParticipant /\ currentParticipant.id \in IdsOf(participants)) =>
    /\ \E k \in 1..Len(participants) :
         participants[k] = Participant(currentParticipant.id, currentParticipant.role)
    /\ isHost <=> HasHost(participants, currentParticipant.id)

\* C39 (amended): room:joined and room:host-changed leave the list and
\* currentParticipant in agreement on the local role; room:participant-joined and
\* room:participant-left never change currentParticipant and keep the agreement,
\* except a room:participant-joined that adds the local participant's own id when
\* the list does not hold it.
C39_RoleAgreesUnlessReadded ==
  [][lastEvent' # lastEvent =>
       /\ lastEvent'.type \in {"room:joined", "room:host-changed"} => Agree'
       /\ lastEvent'.type = "room:participant-left" =>
            /\ currentParticipant' = currentParticipant
            /\ Agree => Agree'
       /\ lastEvent'.type = "room:participant-joined" =>
            /\ currentParticipant' = currentParticipant
            /\ (Agree /\ (lastEvent'.arg # currentParticipant.id
                            \/ currentParticipant.id \in IdsOf(participants))) => Agree']_vars

C39_Witness ==
  /\ lastEvent.type = "room:participant-joined"
  /\ lastEvent.arg # currentParticipant.id
  /\ lastEvent.arg \in IdsOf(participants)
  /\ isHost
  /\ HasHost(participants, currentParticipant.id)
  /\ HostCount(participants) = 1
  /\ Len(participants) >= 2

(* ------------------- specification: the API client ---------------------- *)
otherThanApi == <<hookVars, pageVars>>

NextApi ==
  \/ \E k \in Callers : StartChain(k) /\ UNCHANGED otherThanApi
  \/ \E k \in Callers, r \in Responses : Respond(k, r) /\ UNCHANGED otherThanApi
  \/ \E k \in Callers : CountTick(k) /\ UNCHANGED otherThanApi
  \/ \E k \in Callers : BufferDone(k) /\ UNCHANGED otherThanApi
  \/ Elapse /\ UNCHANGED otherThanApi

SpecApi == Init /\ [][NextApi]_vars

(* ------------------- claims: the API client ----------------------------- *)
\* The request of caller k is issued / settles in this step.
Issued(k) == chain[k].phase # "fetch" /\ chain'[k].phase = "fetch"
Settled(k) == chain[k].phase = "fetch" /\ chain'[k].phase # "fetch"

\* createCloudBrowserSession is called by k in this step.
Called(k) == chain'[k].calls = chain[k].calls + 1

\* C34 (as stated): createCloudBrowserSession issues no request while globally
\* rate limited and throws a RateLimitError instead; a 429 rate-limited response
\* sets globalRateLimitUntil to now + retryAfterMs, 60000 when the response
\* carries none; success resets it to 0; any other failure leaves it unchanged.
C34_RateLimitGate ==
  [][\A k \in Callers :
       /\ Issued(k) => ~isGloballyRateLimited
       /\ (Called(k) /\ isGloballyRateLimited) =>
            chain'[k].phase = "count" /\ chain'[k].lastError # NoRateLimit
       /\ Settled(k) =>
            LET r == chain'[k].resp IN
              /\ r.kind = "rate" =>
                   globalRateLimitUntil' =
                     now + (IF r.ms = NoRetryAfter THEN 60000 ELSE r.ms)
              /\ (r.kind = "ok" /\ chain'[k].phase = "returned") =>
                   globalRateLimitUntil' = 0
              /\ chain'[k].thrown = "error" =>
                   globalRateLimitUntil' = globalRateLimitUntil]_vars

\* C34 (amended): createCloudBrowserSession issues no request while globally
\* rate limited and throws a RateLimitError instead; a 429 rate-limited response
\* sets globalRateLimitUntil to now + retryAfterMs, 60000 when the response
\* carries none or carries 0; a response with an ok status resets it to 0, also
\* when reading its body then fails; any other failure leaves it unchanged.
C34_RateLimitGateOkStatus ==
  [][\A k \in Callers :
       /\ Issued(k) => ~isGloballyRateLimited
       /\ (Called(k) /\ isGloballyRateLimited) =>
            chain'[k].phase = "count" /\ chain'[k].lastError # NoRateLimit
       /\ Settled(k) =>
            LET r == chain'[k].resp IN
              /\ r.kind = "rate" =>
                   globalRateLimitUntil' =
                     now + (IF r.ms \in {NoRetryAfter, 0} THEN 60000 ELSE r.ms)
              /\ r.kind \in {"ok", "okBadBody"} => globalRateLimitUntil' = 0
              /\ r.kind = "error" =>
                   globalRateLimitUntil' = globalRateLimitUntil]_vars

\* a call was refused without a request while the limit set by the other
\* caller's 429 is active
C34_Witness ==
  \E k \in Callers, j \in Callers :
    /\ k # j
    /\ isGloballyRateLimited
    /\ chain[k].phase = "count" /\ chain[k].resp = NoResponse /\ chain[k].calls = 1
    /\ chain[j].resp.kind = "rate"

\* A measure of what is left of the retry loop: attempts first, then the
\* position inside one attempt.
RankSpan == DefaultRetryAfterMs \div MsPerSec + 3

ChainRank(ch) ==
  (MaxRetries - ch.attempt) * RankSpan
    + (CASE ch.phase = "fetch" -> RankSpan - 1
         [] ch.phase = "count" -> ch.remaining + 1
         [] ch.phase = "buffer" -> 1
         [] OTHER -> 0)

\* C35: createCloudBrowserSessionWithRetry ends after at most maxRetries calls of
\* createCloudBrowserSession (every step of the loop brings it closer to its
\* end): it returns the first success, rethrows the first error that is not a
\* rate limit at once, and throws the last RateLimitError when every attempt was
\* rate limited; after a rate-limited attempt it reports a countdown that starts
\* at max(5, retryAfterSeconds) and goes down by 1 to 0 before the next attempt.
C35_RetryBounded ==
  /\ [](\A k \in Callers :
          /\ chain[k].calls <= MaxRetries
          /\ chain[k].phase = "returned" => chain[k].resp.kind = "ok"
          /\ (chain[k].phase = "threw" /\ chain[k].thrown = "rate") =>
               /\ chain[k].calls = MaxRetries
               /\ chain[k].lastError # NoRateLimit
               /\ chain[k].report = 0
          /\ chain[k].phase = "buffer" => chain[k].report = 0)
  /\ [][\A k \in Callers :
          (chain'[k] # chain[k] /\ chain[k].phase # "idle") =>
            /\ ChainRank(chain'[k]) < ChainRank(chain[k])
            /\ (Settled(k) /\ chain'[k].resp.kind = "ok") =>
                 chain'[k].phase = "returned"
            /\ (Settled(k) /\ chain'[k].resp.kind \in {"okBadBody", "error"}) =>
                 chain'[k].phase = "threw" /\ chain'[k].thrown = "error"
            /\ (Called(k) /\ ~Issued(k)) => chain'[k].phase = "count"
            /\ (chain[k].phase # "count" /\ chain'[k].phase = "count") =>
                 chain'[k].report = Max(5, chain'[k].lastError)
            /\ chain[k].phase = "count" =>
                 /\ chain'[k].report = chain[k].report - 1
                 /\ chain'[k].phase = "buffer" <=> chain'[k].report = 0]_vars

\* three attempts were all rate limited and the last RateLimitError was thrown
C35_Witness ==
  \E k \in Callers :
    /\ chain[k].phase = "threw"
    /\ chain[k].thrown = "rate"
    /\ chain[k].calls = 3

(* ------------------- specifications: RoomPage cloud browser ------------- *)
StatusResults == {"yes", "no", "error"}
SessionResults == {"session", "null", "error"}
PollGens == {"cur", "old"}

\* the room of the page
PageRoom == CHOOSE room \in Rooms : TRUE

\* room:joined payloads (list and position of the local participant) in which
\* the local participant is a guest; a re-join may give it another id
ViewerJoins == {j \in DuoSnapshots \X {1, 2} : j[1][j[2]].role = "guest"}

\* responses to the create-session requests of the initialization
InitResponses == {r \in Responses : r.kind # "okBadBody" /\ r.ms \in {NoRetryAfter, 1500}}

\* A viewer's page: the local participant joins and re-joins as a guest.
NextPoll ==
  \/ Connect
  \/ Disconnect
  \/ JoinAck(TRUE, PageRoom)
  \/ \E j \in ViewerJoins : RoomJoined(j[1][j[2]], j[1])
  \/ RunInitEffect
  \/ \E i \in 1..2, status \in StatusResults : InitStatus(i, status)
  \/ \E i \in 1..2, result \in SessionResults : InitSession(i, result)
  \/ RunPollEffect
  \/ PollTick
  \/ \E gen \in PollGens, result \in SessionResults : PollResponds(gen, result)
  \/ PageUnmount

SpecPoll == Init /\ [][NextPoll]_vars

\* Any participant's page with the automatic initialization and its
\* create-session calls.
NextInit ==
  \/ Connect
  \/ JoinAck(TRUE, PageRoom)
  \/ \E ps \in DuoSnapshots : RoomJoined(ps[1], ps)
  \/ \E i \in {1, 2} : HostChanged(i)
  \/ RunInitEffect
  \/ \E i \in 1..2, status \in StatusResults : InitStatus(i, status)
  \/ \E i \in 1..2, result \in SessionResults : InitSession(i, result)
  \/ \E i \in 1..2 : InitCreate(i)
  \/ \E r \in InitResponses : Respond("auto", r) /\ UNCHANGED otherThanApi
  \/ CountTick("auto") /\ UNCHANGED otherThanApi
  \/ BufferDone("auto") /\ UNCHANGED otherThanApi
  \/ chain["auto"].phase # "idle" /\ Elapse /\ UNCHANGED otherThanApi
  \/ PageUnmount

SpecInit == Init /\ [][NextInit]_vars

\* The initialization when the service is available and every API call
\* succeeds. React runs an effect whose dependencies changed and every request
\* settles, so these steps are taken when they stay possible; the room events
\* may or may not arrive.
OkResponse == [kind |-> "ok", ms |-> NoRetryAfter]
OkSessionResults == {"session", "null"}

StatusSettles == \E i \in 1..2 : InitStatus(i, "yes")
SessionSettles == \E i \in 1..2, result \in OkSessionResults : InitSession(i, result)
CreateSettles == \E i \in 1..2 : InitCreate(i)
CreateResponds == Respond("auto", OkResponse) /\ UNCHANGED otherThanApi

NextInitOk ==
  \/ Connect
  \/ JoinAck(TRUE, PageRoom)
  \/ \E ps \in DuoSnapshots : RoomJoined(ps[1], ps)
  \/ \E i \in {1, 2} : HostChanged(i)
  \/ RunInitEffect
  \/ StatusSettles
  \/ SessionSettles
  \/ CreateSettles
  \/ CreateResponds

SpecInitFair ==
  /\ Init /\ [][NextInitOk]_vars
  /\ WF_vars(RunInitEffect)
  /\ WF_vars(StatusSettles)
  /\ WF_vars(SessionSettles)
  /\ WF_vars(CreateSettles)
  /\ WF_vars(CreateResponds)

(* ------------------- claims: RoomPage cloud browser --------------------- *)
\* C36: a viewer without embed URL makes at most 30 getCloudBrowserSession
\* calls by polling, and no poll is issued once an embed URL is set (so none
\* after the first call that returned a session) or the page has unmounted.
C36_PollsBounded ==
  /\ [](priorPolls + CallsOf(poller) <= 30)
  /\ [][pollsInFlight'.cur > pollsInFlight.cur =>
          hyperbeamEmbedUrl = NoUrl /\ ~pageUnmounted]_vars

\* C37: at most one initCloudBrowser is in flight at any time, so at most one
\* create-session chain of the initialization is outstanding, and no
\* create-session request of the initialization is issued while the local
\* participant's role is not host.
C37_OneInitHostOnly ==
  /\ [](Len(inits) <= 1)
  /\ [][Issued("auto") => isHost]_vars

\* C38: once joined, with the service available and every API call succeeding,
\* a host eventually has hyperbeamEmbedUrl set, also when currentParticipant
\* changes while an initialization is in flight; initializingRef is set exactly
\* while an initialization is in flight, so it is released when one ends.
C38_HostGetsUrl ==
  /\ (isJoined /\ isHost) ~> (hyperbeamEmbedUrl # NoUrl \/ ~isHost)
  /\ [](initializingRef <=> Len(inits) > 0)

====
